---------------------------- MODULE Spec2Model ----------------------------
(***************************************************************************)
(* Model of content/common/gpu/media/video_decode_accelerator_unittest.cc: *)
(* the GLRenderingVDAClient decode driver, the calls it makes on its video *)
(* decode accelerator, the callbacks the accelerator makes on it, the      *)
(* rendering helper's textures and the TestSimpleDecode harness that waits *)
(* on the driver's ClientStateNotification.                                *)
(*                                                                         *)
(* Every handler of the driver is an operator on a record w that holds the *)
(* fields of the driver (source names, with the trailing underscore), the  *)
(* accelerator (prefix vda) and the rendering helper.  A handler returns   *)
(* the record after the whole call, nested calls included.  A failed CHECK *)
(* sets w.failed and stops the program.                                    *)
(***************************************************************************)
EXTENDS Integers, Sequences, FiniteSets, TLC

-----------------------------------------------------------------------------
(* enum ClientState *)
CS_CREATED == 0
CS_DECODER_SET == 1
CS_INITIALIZED == 2
CS_FLUSHING == 3
CS_FLUSHED == 4
CS_RESETTING == 5
CS_RESET == 6
CS_ERROR == 7
CS_DESTROYED == 8
CS_MAX == 9

(* enum ResetPoint *)
START_OF_STREAM_RESET == -3
MID_STREAM_RESET == -2
END_OF_STREAM_RESET == -1

kMinSupportedNumConcurrentDecoders == 3

(* next_bitstream_buffer_id_ is masked against 30 bits: 0x3FFFFFFF + 1 *)
IdMod == 1073741824

(* NAL unit type of a sequence parameter set, and the mask that reads it *)
NalTypeMask == 32
NalSPS == 7

-----------------------------------------------------------------------------
(* Bounds of the model *)
MaxInFlight == 2
MaxPlayThroughs == 2
MaxResetFrame == 1
MaxDeleteAfter == 2
MaxBuffers == 1
MaxTextures == 2
(* picture buffers the accelerator holds at once, and textures created, in *)
(* the specification of the picture buffer ids                             *)
MaxPoolBuffers == 2
MaxPoolTextures == 3
(* the frame interval of the throttling client and the clock, in ticks *)
MaxFrameDuration == 2
(* fragmenters called on their own: units in a buffer, bytes in a payload *)
MaxUnits == 3
MaxPayload == 1
MaxTime == 4

-----------------------------------------------------------------------------
(* Test streams: Annex B NAL units, each <<0,0,0,1,type>> \o payload *)
NALU(type, payload) == <<0, 0, 0, 1, type>> \o payload

(* one unit that precedes the first SPS, the SPS, two slices *)
StreamSkip == NALU(1, <<>>) \o NALU(7, <<>>) \o NALU(5, <<9>>) \o NALU(1, <<>>)
(* SPS, PPS, one slice *)
StreamPlain == NALU(7, <<>>) \o NALU(8, <<>>) \o NALU(5, <<>>)

TestStreams == {StreamSkip, StreamPlain}

-----------------------------------------------------------------------------
(* The fragmenter.  Positions are the source's 0-based offsets. *)
ByteAt(encoded, pos) == encoded[pos + 1]

LookingAtNAL(encoded, pos) ==
    /\ ByteAt(encoded, pos) = 0
    /\ ByteAt(encoded, pos + 1) = 0
    /\ ByteAt(encoded, pos + 2) = 0
    /\ ByteAt(encoded, pos + 3) = 1

RECURSIVE ScanToNAL(_, _)
(* while (end_pos + 4 <= size && !LookingAtNAL(encoded_data_, end_pos)) ++end_pos *)
ScanToNAL(encoded, end_pos) ==
    IF end_pos + 4 <= Len(encoded) /\ ~LookingAtNAL(encoded, end_pos)
    THEN ScanToNAL(encoded, end_pos + 1)
    ELSE end_pos

(* GetBytesForNextNALU without its last statement, which moves an end_pos *)
(* in the last three bytes to the end of the buffer                      *)
GetBytesForNextNALU_NoTail(encoded, start_pos) ==
    IF start_pos + 4 > Len(encoded) THEN start_pos
    ELSE IF ~LookingAtNAL(encoded, start_pos) THEN -1
    ELSE ScanToNAL(encoded, start_pos + 4)

(* GetBytesForNextNALU: the new end_pos, or -1 when CHECK(LookingAtNAL) fails *)
GetBytesForNextNALU(encoded, start_pos) ==
    IF start_pos + 4 > Len(encoded) THEN start_pos
    ELSE IF ~LookingAtNAL(encoded, start_pos) THEN -1
    ELSE LET e == ScanToNAL(encoded, start_pos + 4)
         IN IF e + 3 >= Len(encoded) THEN Len(encoded) ELSE e

(* std::string::substr(pos, n) *)
Substr(encoded, pos, n) ==
    SubSeq(encoded, pos + 1, IF pos + n > Len(encoded) THEN Len(encoded) ELSE pos + n)

(* GetBytesForNextFragment that leaves num_queued_fragments_ alone *)
GetBytesForNextFragment_Uncounted(encoded, start_pos) ==
    LET e == GetBytesForNextNALU(encoded, start_pos)
    IN IF e = -1
       THEN [bytes |-> <<>>, end_pos |-> start_pos, queued |-> 0, skipped |-> 0, ok |-> FALSE]
       ELSE [bytes |-> Substr(encoded, start_pos, e - start_pos), end_pos |-> e,
             queued |-> 0, skipped |-> 0, ok |-> TRUE]

(* GetBytesForNextFragment, h264 branch: the fragment, the new end_pos, the   *)
(* increment of num_queued_fragments_ and whether the CHECK held             *)
GetBytesForNextFragment(encoded, start_pos) ==
    LET e == GetBytesForNextNALU(encoded, start_pos)
    IN IF e = -1
       THEN [bytes |-> <<>>, end_pos |-> start_pos, queued |-> 0, skipped |-> 0, ok |-> FALSE]
       ELSE [bytes |-> Substr(encoded, start_pos, e - start_pos), end_pos |-> e,
             queued |-> IF start_pos # e THEN 1 ELSE 0, skipped |-> 0, ok |-> TRUE]

RECURSIVE FirstFragmentFrom(_, _, _, _)
(* the while loop of GetBytesForFirstFragment, h264 branch *)
FirstFragmentFrom(encoded, start_pos, end_pos, skipped) ==
    IF end_pos + 4 < Len(encoded)
    THEN IF ByteAt(encoded, end_pos + 4) % NalTypeMask = NalSPS
         THEN [GetBytesForNextFragment(encoded, end_pos) EXCEPT !.skipped = skipped]
         ELSE LET e == GetBytesForNextNALU(encoded, end_pos)
              IN IF e = -1
                 THEN [bytes |-> <<>>, end_pos |-> end_pos, queued |-> 0,
                       skipped |-> skipped, ok |-> FALSE]
                 ELSE FirstFragmentFrom(encoded, start_pos, e, skipped + 1)
    ELSE [bytes |-> <<>>, end_pos |-> start_pos, queued |-> 0, skipped |-> skipped, ok |-> TRUE]

GetBytesForFirstFragment(encoded, start_pos) ==
    FirstFragmentFrom(encoded, start_pos, start_pos, 0)

(* Whether the accelerator outputs a picture for a fragment: a slice does, a *)
(* parameter set or an empty fragment does not.                             *)
CarriesFrame(bytes) ==
    /\ Len(bytes) > 4
    /\ bytes[5] % NalTypeMask \notin {7, 8}

(* The IVF container (VP8): a file header of kIvfFileHeaderSize bytes, then  *)
(* frames, each a header of kIvfFrameHeaderSize bytes (the frame size as a   *)
(* 32-bit little-endian number, then a 64-bit timestamp) and the frame.      *)
kIvfFileHeaderSize == 32
kIvfFrameHeaderSize == 12

RECURSIVE LittleEndian(_, _)
(* n as that many bytes, the least significant first *)
LittleEndian(n, bytes) ==
    IF bytes = 0 THEN <<>> ELSE <<n % 256>> \o LittleEndian(n \div 256, bytes - 1)

IvfFileHeader == <<68, 75, 73, 70>> \o LittleEndian(0, 2) \o LittleEndian(32, 2)
                    \o <<86, 80, 56, 48>> \o LittleEndian(0, 20)

IvfFrame(payload, timestamp) ==
    LittleEndian(Len(payload), 4) \o LittleEndian(timestamp, 8) \o payload

RECURSIVE IvfFrames(_, _)
IvfFrames(units, timestamp) ==
    IF units = <<>> THEN <<>>
    ELSE IvfFrame(Head(units), timestamp) \o IvfFrames(Tail(units), timestamp + 1)

IvfStream(units) == IvfFileHeader \o IvfFrames(units, 0)

(* *reinterpret_cast<uint32*>(&encoded_data_[pos]) on a little-endian host *)
ReadUint32(encoded, pos) ==
    ByteAt(encoded, pos) + 256 * ByteAt(encoded, pos + 1)
        + 65536 * ByteAt(encoded, pos + 2) + 16777216 * ByteAt(encoded, pos + 3)

(* GetBytesForNextFrame that returns the frame with its header *)
GetBytesForNextFrame_WithHeader(encoded, start_pos) ==
    LET pos == IF start_pos = 0 THEN kIvfFileHeaderSize ELSE start_pos
        frame_size == ReadUint32(encoded, pos)
    IN [bytes |-> Substr(encoded, pos, kIvfFrameHeaderSize + frame_size),
        end_pos |-> pos + kIvfFrameHeaderSize + frame_size,
        queued |-> 1, skipped |-> 0, ok |-> TRUE]

(* GetBytesForNextFrame: the frame, the new end_pos and the increment of   *)
(* num_queued_fragments_                                                   *)
GetBytesForNextFrame(encoded, start_pos) ==
    LET pos == IF start_pos = 0 THEN kIvfFileHeaderSize ELSE start_pos
        frame_size == ReadUint32(encoded, pos)
    IN [bytes |-> Substr(encoded, pos + kIvfFrameHeaderSize, frame_size),
        end_pos |-> pos + kIvfFrameHeaderSize + frame_size,
        queued |-> 1, skipped |-> 0, ok |-> TRUE]

RECURSIVE NumFragments(_, _)
(* The fragment count of a test video, as its file name states it: the NAL *)
(* units from pos on.                                                      *)
NumFragments(encoded, pos) ==
    LET e == GetBytesForNextNALU(encoded, pos)
    IN IF e = -1 \/ e = pos THEN 0 ELSE 1 + NumFragments(encoded, e)

RECURSIVE FramesFrom(_, _)
(* the frames in the fragments from pos on *)
FramesFrom(encoded, pos) ==
    IF pos >= Len(encoded) THEN 0
    ELSE LET f == GetBytesForNextFragment(encoded, pos)
         IN IF ~f.ok \/ f.end_pos = pos THEN 0
            ELSE (IF CarriesFrame(f.bytes) THEN 1 ELSE 0) + FramesFrom(encoded, f.end_pos)

(* The frame count of a test video, as its file name states it: the frames *)
(* in the fragments the driver submits in one pass.                        *)
NumFrames(encoded) ==
    LET f == GetBytesForFirstFragment(encoded, 0)
    IN IF ~f.ok \/ f.end_pos = 0 THEN 0
       ELSE (IF CarriesFrame(f.bytes) THEN 1 ELSE 0) + FramesFrom(encoded, f.end_pos)

-----------------------------------------------------------------------------
VARIABLES
    (* GLRenderingVDAClient *)
    encoded_data_, num_in_flight_decodes_, outstanding_decodes_,
    encoded_data_next_pos_to_decode_, next_bitstream_buffer_id_, note_,
    decoder_, outstanding_texture_ids_, remaining_play_throughs_,
    reset_after_frame_num_, delete_decoder_state_, state_,
    num_skipped_fragments_, num_queued_fragments_, num_decoded_frames_,
    num_done_bitstream_buffers_, picture_buffers_by_id_,
    (* the video decode accelerator behind decoder_ *)
    vda_init, vda_queue, vda_pics, vda_bufs, vda_out, vda_error,
    (* RenderingHelper: live textures, the next fresh id, deleted ids *)
    textures, next_texture_id, deleted_textures, double_delete,
    (* history of the calls made on the accelerator *)
    calls,
    (* TestSimpleDecode: parameters, the reset_after_frame_num of the video  *)
    (* file, waits done, outcome, clients deleted                            *)
    num_concurrent_decoders, num_play_throughs, reset_after_frame_num, num_frames, num_fragments, frag,
    h_step, h_status, destructed,
    (* frag: for a fragmenter called on its own, the units the buffer was   *)
    (* made of, the position and the result of the last call, the calls     *)
    (* the first CHECK that failed ("none" while none did), DCHECKs violated *)
    failed, dchecks,
    (* ThrottlingVDAClient (throttling_client_ tells whether there is one);  *)
    (* its num_decoded_frames_ is throttling_num_decoded_frames_             *)
    throttling_client_, frame_duration_, next_frame_delivered_time_,
    throttling_num_decoded_frames_, stream_version_, pending_pictures_,
    (* the delayed tasks of the rendering thread's message loop, the clock   *)
    (* base::TimeTicks::Now(), the history of the throttling client          *)
    tasks, now, thr

vars == <<encoded_data_, num_in_flight_decodes_, outstanding_decodes_,
          encoded_data_next_pos_to_decode_, next_bitstream_buffer_id_, note_,
          decoder_, outstanding_texture_ids_, remaining_play_throughs_,
          reset_after_frame_num_, delete_decoder_state_, state_,
          num_skipped_fragments_, num_queued_fragments_, num_decoded_frames_,
          num_done_bitstream_buffers_, picture_buffers_by_id_,
          vda_init, vda_queue, vda_pics, vda_bufs, vda_out, vda_error,
          textures, next_texture_id, deleted_textures, double_delete, calls,
          num_concurrent_decoders, num_play_throughs, reset_after_frame_num, num_frames, num_fragments, frag,
          h_step, h_status, destructed, failed, dchecks,
          throttling_client_, frame_duration_, next_frame_delivered_time_,
          throttling_num_decoded_frames_, stream_version_, pending_pictures_,
          tasks, now, thr>>

(* The state the handlers work on, as one record *)
W == [encoded_data_ |-> encoded_data_,
      num_in_flight_decodes_ |-> num_in_flight_decodes_,
      outstanding_decodes_ |-> outstanding_decodes_,
      encoded_data_next_pos_to_decode_ |-> encoded_data_next_pos_to_decode_,
      next_bitstream_buffer_id_ |-> next_bitstream_buffer_id_,
      note_ |-> note_,
      decoder_ |-> decoder_,
      outstanding_texture_ids_ |-> outstanding_texture_ids_,
      remaining_play_throughs_ |-> remaining_play_throughs_,
      reset_after_frame_num_ |-> reset_after_frame_num_,
      delete_decoder_state_ |-> delete_decoder_state_,
      state_ |-> state_,
      num_skipped_fragments_ |-> num_skipped_fragments_,
      num_queued_fragments_ |-> num_queued_fragments_,
      num_decoded_frames_ |-> num_decoded_frames_,
      num_done_bitstream_buffers_ |-> num_done_bitstream_buffers_,
      picture_buffers_by_id_ |-> picture_buffers_by_id_,
      vda_init |-> vda_init, vda_queue |-> vda_queue, vda_pics |-> vda_pics,
      vda_bufs |-> vda_bufs, vda_out |-> vda_out, vda_error |-> vda_error,
      textures |-> textures, next_texture_id |-> next_texture_id,
      deleted_textures |-> deleted_textures, double_delete |-> double_delete,
      calls |-> calls, failed |-> failed, dchecks |-> dchecks,
      throttling_client_ |-> throttling_client_,
      frame_duration_ |-> frame_duration_,
      next_frame_delivered_time_ |-> next_frame_delivered_time_,
      throttling_num_decoded_frames_ |-> throttling_num_decoded_frames_,
      stream_version_ |-> stream_version_,
      pending_pictures_ |-> pending_pictures_,
      tasks |-> tasks, now |-> now, thr |-> thr]

Commit(w) ==
    /\ encoded_data_' = w.encoded_data_
    /\ num_in_flight_decodes_' = w.num_in_flight_decodes_
    /\ outstanding_decodes_' = w.outstanding_decodes_
    /\ encoded_data_next_pos_to_decode_' = w.encoded_data_next_pos_to_decode_
    /\ next_bitstream_buffer_id_' = w.next_bitstream_buffer_id_
    /\ note_' = w.note_
    /\ decoder_' = w.decoder_
    /\ outstanding_texture_ids_' = w.outstanding_texture_ids_
    /\ remaining_play_throughs_' = w.remaining_play_throughs_
    /\ reset_after_frame_num_' = w.reset_after_frame_num_
    /\ delete_decoder_state_' = w.delete_decoder_state_
    /\ state_' = w.state_
    /\ num_skipped_fragments_' = w.num_skipped_fragments_
    /\ num_queued_fragments_' = w.num_queued_fragments_
    /\ num_decoded_frames_' = w.num_decoded_frames_
    /\ num_done_bitstream_buffers_' = w.num_done_bitstream_buffers_
    /\ picture_buffers_by_id_' = w.picture_buffers_by_id_
    /\ vda_init' = w.vda_init
    /\ vda_queue' = w.vda_queue
    /\ vda_pics' = w.vda_pics
    /\ vda_bufs' = w.vda_bufs
    /\ vda_out' = w.vda_out
    /\ vda_error' = w.vda_error
    /\ textures' = w.textures
    /\ next_texture_id' = w.next_texture_id
    /\ deleted_textures' = w.deleted_textures
    /\ double_delete' = w.double_delete
    /\ calls' = w.calls
    /\ failed' = w.failed
    /\ dchecks' = w.dchecks
    /\ throttling_client_' = w.throttling_client_
    /\ frame_duration_' = w.frame_duration_
    /\ next_frame_delivered_time_' = w.next_frame_delivered_time_
    /\ throttling_num_decoded_frames_' = w.throttling_num_decoded_frames_
    /\ stream_version_' = w.stream_version_
    /\ pending_pictures_' = w.pending_pictures_
    /\ tasks' = w.tasks
    /\ now' = w.now
    /\ thr' = w.thr

harness_vars == <<num_concurrent_decoders, num_play_throughs, reset_after_frame_num, num_frames, num_fragments, frag,
                  h_step, h_status, destructed>>

-----------------------------------------------------------------------------
(* A CHECK that fails, or a call through the null decoder_, ends the program; *)
(* the first one is kept.                                                   *)
Fail(w, what) == IF w.failed = "none" THEN [w EXCEPT !.failed = what] ELSE w

Running(w) == w.failed = "none"

decoder_deleted(w) == ~w.decoder_

-----------------------------------------------------------------------------
(* The accelerator's side of the calls the driver makes on decoder_.  Its   *)
(* input queue holds the Decode() units and the Flush() and Reset() marks   *)
(* in call order.                                                           *)
Entry(kind, id, frame) == [kind |-> kind, id |-> id, frame |-> frame, stale |-> FALSE]

RECURSIVE MarkStale(_)
(* the units and pictures a Reset() finds pending *)
MarkStale(q) ==
    IF q = <<>> THEN <<>>
    ELSE <<IF Head(q).kind \in {"flush", "reset"} THEN Head(q)
           ELSE [Head(q) EXCEPT !.stale = TRUE]>> \o MarkStale(Tail(q))

(* Initialize(profile) *)
VdaInitialize(w) == [w EXCEPT !.vda_init = "pending"]

(* Decode(bitstream_buffer) *)
VdaDecode(w, id, bytes) ==
    [w EXCEPT !.vda_queue = Append(@, Entry("decode", id, CarriesFrame(bytes))),
              !.calls.decode = @ + 1]

(* Flush(): the units before the mark are decoded and their pictures handed *)
(* back before NotifyFlushDone                                              *)
VdaFlush(w) ==
    [w EXCEPT !.vda_queue = Append(@, Entry("flush", -1, FALSE)),
              !.calls.flush = @ + 1]

(* Reset(): pending inputs are dropped, pictures not yet handed back may be *)
(* handed back until NotifyResetDone                                        *)
VdaReset(w) ==
    [w EXCEPT !.vda_queue = Append(MarkStale(@), Entry("reset", -1, FALSE)),
              !.vda_pics = MarkStale(@),
              !.calls.reset = @ + 1]

(* Destroy(): no callback is made on the client after it returns.  The     *)
(* history keeps the driver's state and the number of notifications made  *)
(* when Destroy() was called.                                             *)
VdaDestroy(w) ==
    [w EXCEPT !.vda_init = "none", !.vda_queue = <<>>, !.vda_pics = <<>>,
              !.vda_bufs = {}, !.vda_out = {}, !.calls.destroy = @ + 1,
              !.calls.destroy_state = w.state_, !.calls.destroy_at = Len(w.note_)]

(* AssignPictureBuffers(buffers) *)
VdaAssignPictureBuffers(w, ids) == [w EXCEPT !.vda_bufs = @ \cup ids]

(* ReusePictureBuffer(picture_buffer_id) *)
VdaReusePictureBuffer(w, id) == [w EXCEPT !.vda_out = @ \ {id}]

-----------------------------------------------------------------------------
(* RenderingHelper::CreateTexture hands out a fresh texture id *)
CreateTexture(w) ==
    [w EXCEPT !.textures = @ \cup {w.next_texture_id},
              !.next_texture_id = @ + 1]

(* RenderingHelper::DeleteTexture *)
DeleteTexture(w, texture_id) ==
    IF texture_id \in w.textures
    THEN [w EXCEPT !.textures = @ \ {texture_id},
                   !.deleted_textures = @ \cup {texture_id}]
    ELSE [w EXCEPT !.double_delete = TRUE]

RECURSIVE DeleteTextures(_, _)
(* the loop over outstanding_texture_ids_ in DeleteDecoder *)
DeleteTextures(w, ids) ==
    IF ids = {} THEN w
    ELSE LET t == CHOOSE x \in ids : \A y \in ids : x <= y
         IN DeleteTextures(DeleteTexture(w, t), ids \ {t})

-----------------------------------------------------------------------------
(* GLRenderingVDAClient *)
RECURSIVE SetState(_, _), DeleteDecoder(_), Cascade(_, _)

SetState(w, new_state) ==
    IF ~Running(w) THEN w
    ELSE LET w1 == [w EXCEPT !.note_ = Append(@, new_state), !.state_ = new_state]
         IN IF w1.remaining_play_throughs_ = 0 /\ new_state = w1.delete_decoder_state_
            THEN IF decoder_deleted(w1) THEN Fail(w1, "SetState: CHECK(!decoder_deleted())")
                 ELSE DeleteDecoder(w1)
            ELSE w1

(* A cascade that steps over every other state *)
Cascade_Skipping(w, i) ==
    IF i >= CS_MAX \/ ~Running(w) THEN w
    ELSE Cascade(SetState(w, i), i + 2)

(* for (int i = state_ + 1; i < CS_MAX; ++i) SetState(i) *)
Cascade(w, i) ==
    IF i >= CS_MAX \/ ~Running(w) THEN w
    ELSE Cascade(SetState(w, i), i + 1)

(* DeleteDecoder without the early return on a deleted decoder *)
DeleteDecoder_Unguarded(w) ==
    IF ~Running(w) THEN w
    ELSE LET w1 == VdaDestroy([w EXCEPT !.decoder_ = FALSE])
             w2 == [w1 EXCEPT !.encoded_data_ = <<>>]
             w3 == [DeleteTextures(w2, w2.outstanding_texture_ids_)
                       EXCEPT !.outstanding_texture_ids_ = {}]
         IN Cascade(w3, w3.state_ + 1)

(* DeleteDecoder without the loop that deletes the outstanding textures *)
DeleteDecoder_KeepTextures(w) ==
    IF ~Running(w) \/ decoder_deleted(w) THEN w
    ELSE LET w1 == VdaDestroy([w EXCEPT !.decoder_ = FALSE])
             w2 == [w1 EXCEPT !.encoded_data_ = <<>>]
             w3 == [w2 EXCEPT !.outstanding_texture_ids_ = {}]
         IN Cascade(w3, w3.state_ + 1)

(* DeleteDecoder without the loop that notifies the states that remain *)
DeleteDecoder_NoCascade(w) ==
    IF ~Running(w) \/ decoder_deleted(w) THEN w
    ELSE LET w1 == VdaDestroy([w EXCEPT !.decoder_ = FALSE])
             w2 == [w1 EXCEPT !.encoded_data_ = <<>>]
         IN [DeleteTextures(w2, w2.outstanding_texture_ids_)
                EXCEPT !.outstanding_texture_ids_ = {}]

DeleteDecoder(w) ==
    IF ~Running(w) \/ decoder_deleted(w) THEN w
    ELSE LET w1 == VdaDestroy([w EXCEPT !.decoder_ = FALSE])
             w2 == [w1 EXCEPT !.encoded_data_ = <<>>]
             w3 == [DeleteTextures(w2, w2.outstanding_texture_ids_)
                       EXCEPT !.outstanding_texture_ids_ = {}]
         IN Cascade(w3, w3.state_ + 1)

num_decoded_frames(w) ==
    IF w.throttling_client_ THEN w.throttling_num_decoded_frames_
    ELSE w.num_decoded_frames_

(* DecodeNextFragment that flushes at the end of the stream without looking *)
(* at outstanding_decodes_                                                 *)
DecodeNextFragment_FlushEarly(w) ==
    IF ~Running(w) \/ decoder_deleted(w) THEN w
    ELSE IF w.encoded_data_next_pos_to_decode_ = Len(w.encoded_data_)
    THEN SetState(VdaFlush(w), CS_FLUSHING)
    ELSE LET f == IF w.encoded_data_next_pos_to_decode_ = 0
                  THEN GetBytesForFirstFragment(w.encoded_data_, 0)
                  ELSE GetBytesForNextFragment(w.encoded_data_,
                                               w.encoded_data_next_pos_to_decode_)
         IN IF ~f.ok THEN Fail(w, "GetBytesForNextNALU: CHECK(LookingAtNAL)")
            ELSE LET w1 == [VdaDecode(w, w.next_bitstream_buffer_id_, f.bytes) EXCEPT
                               !.num_skipped_fragments_ = @ + f.skipped,
                               !.num_queued_fragments_ = @ + f.queued,
                               !.next_bitstream_buffer_id_ = (@ + 1) % IdMod,
                               !.outstanding_decodes_ = @ + 1,
                               !.encoded_data_next_pos_to_decode_ = f.end_pos]
                 IN IF w1.remaining_play_throughs_ = 0
                       /\ -w1.delete_decoder_state_ = w1.next_bitstream_buffer_id_
                    THEN DeleteDecoder(w1)
                    ELSE w1

(* DecodeNextFragment whose id counter is not masked against 30 bits *)
DecodeNextFragment_Unmasked(w) ==
    IF ~Running(w) \/ decoder_deleted(w) THEN w
    ELSE IF w.encoded_data_next_pos_to_decode_ = Len(w.encoded_data_)
    THEN IF w.outstanding_decodes_ = 0
         THEN SetState(VdaFlush(w), CS_FLUSHING)
         ELSE w
    ELSE LET f == IF w.encoded_data_next_pos_to_decode_ = 0
                  THEN GetBytesForFirstFragment(w.encoded_data_, 0)
                  ELSE GetBytesForNextFragment(w.encoded_data_,
                                               w.encoded_data_next_pos_to_decode_)
         IN IF ~f.ok THEN Fail(w, "GetBytesForNextNALU: CHECK(LookingAtNAL)")
            ELSE LET w1 == [VdaDecode(w, w.next_bitstream_buffer_id_, f.bytes) EXCEPT
                               !.num_skipped_fragments_ = @ + f.skipped,
                               !.num_queued_fragments_ = @ + f.queued,
                               !.next_bitstream_buffer_id_ = @ + 1,
                               !.outstanding_decodes_ = @ + 1,
                               !.encoded_data_next_pos_to_decode_ = f.end_pos]
                 IN IF w1.remaining_play_throughs_ = 0
                       /\ -w1.delete_decoder_state_ = w1.next_bitstream_buffer_id_
                    THEN DeleteDecoder(w1)
                    ELSE w1

DecodeNextFragment(w) ==
    IF ~Running(w) \/ decoder_deleted(w) THEN w
    ELSE IF w.encoded_data_next_pos_to_decode_ = Len(w.encoded_data_)
    THEN IF w.outstanding_decodes_ = 0
         THEN SetState(VdaFlush(w), CS_FLUSHING)
         ELSE w
    ELSE LET f == IF w.encoded_data_next_pos_to_decode_ = 0
                  THEN GetBytesForFirstFragment(w.encoded_data_, 0)
                  ELSE GetBytesForNextFragment(w.encoded_data_,
                                               w.encoded_data_next_pos_to_decode_)
         IN IF ~f.ok THEN Fail(w, "GetBytesForNextNALU: CHECK(LookingAtNAL)")
            ELSE LET w1 == [VdaDecode(w, w.next_bitstream_buffer_id_, f.bytes) EXCEPT
                               !.num_skipped_fragments_ = @ + f.skipped,
                               !.num_queued_fragments_ = @ + f.queued,
                               !.next_bitstream_buffer_id_ = (@ + 1) % IdMod,
                               !.outstanding_decodes_ = @ + 1,
                               !.encoded_data_next_pos_to_decode_ = f.end_pos]
                 IN IF w1.remaining_play_throughs_ = 0
                       /\ -w1.delete_decoder_state_ = w1.next_bitstream_buffer_id_
                    THEN DeleteDecoder(w1)
                    ELSE w1

RECURSIVE DecodeFragments(_, _)
(* for (int i = 0; i < num_in_flight_decodes_; ++i) DecodeNextFragment() *)
DecodeFragments(w, n) ==
    IF n = 0 THEN w ELSE DecodeFragments(DecodeNextFragment(w), n - 1)

(* decoder_->Reset() *)
CallReset(w) ==
    IF ~Running(w) THEN w
    ELSE IF decoder_deleted(w) THEN Fail(w, "Reset() through null decoder_")
    ELSE VdaReset(w)

(* NotifyInitializeDone that starts decoding whatever the reset policy is *)
NotifyInitializeDone_DecodeFirst(w) ==
    LET w1 == SetState(w, CS_INITIALIZED)
        w2 == DecodeFragments(w1, w1.num_in_flight_decodes_)
    IN IF Running(w2) /\ w2.outstanding_decodes_ # w2.num_in_flight_decodes_
       THEN [w2 EXCEPT !.dchecks = @ \cup {"NotifyInitializeDone"}]
       ELSE w2

NotifyInitializeDone(w) ==
    LET w1 == SetState(w, CS_INITIALIZED)
    IN IF w1.reset_after_frame_num_ = START_OF_STREAM_RESET
       THEN CallReset(w1)
       ELSE LET w2 == DecodeFragments(w1, w1.num_in_flight_decodes_)
            IN IF Running(w2) /\ w2.outstanding_decodes_ # w2.num_in_flight_decodes_
               THEN [w2 EXCEPT !.dchecks = @ \cup {"NotifyInitializeDone"}]
               ELSE w2

(* NotifyEndOfBitstreamBuffer that leaves num_done_bitstream_buffers_ alone *)
NotifyEndOfBitstreamBuffer_Uncounted(w) ==
    DecodeNextFragment([w EXCEPT !.outstanding_decodes_ = @ - 1])

NotifyEndOfBitstreamBuffer(w) ==
    DecodeNextFragment([w EXCEPT !.num_done_bitstream_buffers_ = @ + 1,
                                 !.outstanding_decodes_ = @ - 1])

NotifyFlushDone(w) ==
    IF decoder_deleted(w) THEN w
    ELSE LET w1 == SetState(w, CS_FLUSHED)
             w2 == [w1 EXCEPT !.remaining_play_throughs_ = @ - 1]
             w3 == IF Running(w2) /\ w2.remaining_play_throughs_ < 0
                   THEN [w2 EXCEPT !.dchecks = @ \cup {"NotifyFlushDone"}]
                   ELSE w2
         IN IF ~Running(w3) \/ decoder_deleted(w3) THEN w3
            ELSE SetState(CallReset(w3), CS_RESETTING)

(* NotifyResetDone that ends the run whatever remaining_play_throughs_ is *)
NotifyResetDone_NoReplay(w) ==
    IF decoder_deleted(w) THEN w
    ELSE IF w.reset_after_frame_num_ = MID_STREAM_RESET
    THEN DecodeNextFragment([w EXCEPT !.reset_after_frame_num_ = END_OF_STREAM_RESET])
    ELSE IF w.reset_after_frame_num_ = START_OF_STREAM_RESET
    THEN DecodeFragments([w EXCEPT !.reset_after_frame_num_ = END_OF_STREAM_RESET],
                         w.num_in_flight_decodes_)
    ELSE LET w1 == SetState(w, CS_RESET)
         IN IF ~decoder_deleted(w1) THEN DeleteDecoder(w1) ELSE w1

NotifyResetDone(w) ==
    IF decoder_deleted(w) THEN w
    ELSE IF w.reset_after_frame_num_ = MID_STREAM_RESET
    THEN DecodeNextFragment([w EXCEPT !.reset_after_frame_num_ = END_OF_STREAM_RESET])
    ELSE IF w.reset_after_frame_num_ = START_OF_STREAM_RESET
    THEN DecodeFragments([w EXCEPT !.reset_after_frame_num_ = END_OF_STREAM_RESET],
                         w.num_in_flight_decodes_)
    ELSE IF w.remaining_play_throughs_ # 0
    THEN NotifyInitializeDone([w EXCEPT !.encoded_data_next_pos_to_decode_ = 0])
    ELSE LET w1 == SetState(w, CS_RESET)
         IN IF ~decoder_deleted(w1) THEN DeleteDecoder(w1) ELSE w1

NotifyError(w) == SetState(w, CS_ERROR)

(* the entry of picture_buffers_by_id_ for an id, as a set (empty: no entry) *)
FindBuffer(w, id) == {b \in w.picture_buffers_by_id_ : b.id = id}

RECURSIVE ProvideOne(_, _, _)
(* the body of the loop of ProvidePictureBuffers, n times; ids collects the *)
(* buffers handed to AssignPictureBuffers                                   *)
ProvideOne(w, n, ids) ==
    IF ~Running(w) THEN w
    ELSE IF n = 0 THEN VdaAssignPictureBuffers(w, ids)
    ELSE LET id == Cardinality(w.picture_buffers_by_id_)
             texture_id == w.next_texture_id
             w1 == CreateTexture(w)
         IN IF texture_id \in w1.outstanding_texture_ids_
            THEN Fail(w1, "ProvidePictureBuffers: CHECK(outstanding_texture_ids_.insert)")
            ELSE IF FindBuffer(w1, id) # {}
            THEN Fail([w1 EXCEPT !.outstanding_texture_ids_ = @ \cup {texture_id}],
                      "ProvidePictureBuffers: CHECK(picture_buffers_by_id_.insert)")
            ELSE ProvideOne(
                     [w1 EXCEPT !.outstanding_texture_ids_ = @ \cup {texture_id},
                                !.picture_buffers_by_id_ =
                                    @ \cup {[id |-> id, texture_id |-> texture_id]}],
                     n - 1, ids \cup {id})

ProvidePictureBuffers(w, requested_num_of_buffers) ==
    IF decoder_deleted(w) THEN w
    ELSE ProvideOne(w, requested_num_of_buffers, {})

DismissPictureBuffer(w, picture_buffer_id) ==
    LET it == FindBuffer(w, picture_buffer_id)
    IN IF it = {} THEN Fail(w, "DismissPictureBuffer: CHECK(it != end())")
       ELSE LET b == CHOOSE x \in it : TRUE
            IN IF b.texture_id \notin w.outstanding_texture_ids_
               THEN Fail(w, "DismissPictureBuffer: CHECK_EQ(erase, 1)")
               ELSE [DeleteTexture([w EXCEPT !.outstanding_texture_ids_ = @ \ {b.texture_id}],
                                   b.texture_id)
                        EXCEPT !.picture_buffers_by_id_ = @ \ {b}]

(* The harness passes delay_reuse_after_frame_num = max int unless it tests *)
(* slow rendering, so the picture buffer is reused at once.                 *)
(* PictureReady whose mid-stream reset goes on from where decoding was *)
PictureReady_NoRewind(w, picture) ==
    IF ~(w.state_ < CS_RESET) THEN Fail(w, "PictureReady: CHECK_LT(state_, CS_RESET)")
    ELSE IF decoder_deleted(w) THEN w
    ELSE IF ~(picture.bitstream_buffer_id <= w.next_bitstream_buffer_id_)
    THEN Fail(w, "PictureReady: CHECK_LE(bitstream_buffer_id, next_bitstream_buffer_id_)")
    ELSE LET w1 == [w EXCEPT !.num_decoded_frames_ = @ + 1]
             w2 == IF w1.remaining_play_throughs_ = 1
                      /\ w1.reset_after_frame_num_ = num_decoded_frames(w1)
                   THEN CallReset([w1 EXCEPT !.reset_after_frame_num_ = MID_STREAM_RESET])
                   ELSE w1
         IN IF FindBuffer(w2, picture.picture_buffer_id) = {}
            THEN Fail(w2, "PictureReady: CHECK(picture_buffer)")
            ELSE VdaReusePictureBuffer(w2, picture.picture_buffer_id)

PictureReady(w, picture) ==
    IF ~(w.state_ < CS_RESET) THEN Fail(w, "PictureReady: CHECK_LT(state_, CS_RESET)")
    ELSE IF decoder_deleted(w) THEN w
    ELSE IF ~(picture.bitstream_buffer_id <= w.next_bitstream_buffer_id_)
    THEN Fail(w, "PictureReady: CHECK_LE(bitstream_buffer_id, next_bitstream_buffer_id_)")
    ELSE LET w1 == [w EXCEPT !.num_decoded_frames_ = @ + 1]
             w2 == IF w1.remaining_play_throughs_ = 1
                      /\ w1.reset_after_frame_num_ = num_decoded_frames(w1)
                   THEN [CallReset([w1 EXCEPT !.reset_after_frame_num_ = MID_STREAM_RESET])
                            EXCEPT !.encoded_data_next_pos_to_decode_ = 0]
                   ELSE w1
         IN IF FindBuffer(w2, picture.picture_buffer_id) = {}
            THEN Fail(w2, "PictureReady: CHECK(picture_buffer)")
            ELSE VdaReusePictureBuffer(w2, picture.picture_buffer_id)

CreateDecoder(w) ==
    IF ~decoder_deleted(w) THEN Fail(w, "CreateDecoder: CHECK(decoder_deleted())")
    ELSE LET w1 == SetState([w EXCEPT !.decoder_ = TRUE], CS_DECODER_SET)
         IN IF ~Running(w1) \/ decoder_deleted(w1) THEN w1
            ELSE VdaInitialize(w1)

(* A destructor that leaves out its own SetState(CS_DESTROYED) *)
Destructor_NoNotify(w) ==
    LET w1 == DeleteDecoder(w)
    IN IF ~Running(w1) THEN w1
       ELSE IF ~decoder_deleted(w1) THEN Fail(w1, "~GLRenderingVDAClient: CHECK(decoder_deleted())")
       ELSE [w1 EXCEPT !.picture_buffers_by_id_ = {}]

(* ~GLRenderingVDAClient *)
Destructor(w) ==
    LET w1 == DeleteDecoder(w)
    IN IF ~Running(w1) THEN w1
       ELSE IF ~decoder_deleted(w1) THEN Fail(w1, "~GLRenderingVDAClient: CHECK(decoder_deleted())")
       ELSE SetState([w1 EXCEPT !.picture_buffers_by_id_ = {}], CS_DESTROYED)

-----------------------------------------------------------------------------
(* ThrottlingVDAClient.  A delayed task is [kind, version, due]; the message *)
(* loop takes a delay below zero as no delay.                               *)
(* A task posted to run at once, whatever its delay *)
PostDelayedTask_NoDelay(w, kind, version, delay) ==
    [w EXCEPT !.tasks = Append(@, [kind |-> kind, version |-> version, due |-> w.now])]

PostDelayedTask(w, kind, version, delay) ==
    [w EXCEPT !.tasks = Append(@, [kind |-> kind, version |-> version,
                                   due |-> w.now + (IF delay > 0 THEN delay ELSE 0)])]

(* GLRenderingVDAClient::NotifyFrameDropped, bound as reuse_picture_cb_ *)
NotifyFrameDropped(w, picture_buffer_id) ==
    IF ~Running(w) THEN w
    ELSE IF decoder_deleted(w) THEN Fail(w, "ReusePictureBuffer() through null decoder_")
    ELSE [VdaReusePictureBuffer(w, picture_buffer_id) EXCEPT !.thr.dropped = @ + 1]

(* PictureReady that posts a delivery task for every picture that arrives *)
ThrottlingPictureReady_AlwaysPost(w, picture) ==
    LET w1 == [w EXCEPT !.throttling_num_decoded_frames_ = @ + 1]
        w2 == PostDelayedTask(w1, "CallClientPictureReady", w1.stream_version_,
                              IF w1.next_frame_delivered_time_ = 0 THEN 0
                              ELSE w1.next_frame_delivered_time_ - w1.now)
    IN [w2 EXCEPT !.pending_pictures_ =
                      Append(@, [picture_buffer_id |-> picture.picture_buffer_id,
                                 bitstream_buffer_id |-> picture.bitstream_buffer_id,
                                 version |-> w2.stream_version_,
                                 seq |-> w2.throttling_num_decoded_frames_])]

(* The picture is queued with the stream version and the arrival number it  *)
(* came in with.                                                            *)
ThrottlingPictureReady(w, picture) ==
    LET w1 == [w EXCEPT !.throttling_num_decoded_frames_ = @ + 1]
        w2 == IF w1.pending_pictures_ = <<>>
              THEN PostDelayedTask(w1, "CallClientPictureReady", w1.stream_version_,
                                   IF w1.next_frame_delivered_time_ = 0 THEN 0
                                   ELSE w1.next_frame_delivered_time_ - w1.now)
              ELSE w1
    IN [w2 EXCEPT !.pending_pictures_ =
                      Append(@, [picture_buffer_id |-> picture.picture_buffer_id,
                                 bitstream_buffer_id |-> picture.bitstream_buffer_id,
                                 version |-> w2.stream_version_,
                                 seq |-> w2.throttling_num_decoded_frames_])]

(* A tick that hands every picture to the driver, however late *)
CallClientPictureReady_NeverLate(w, version) ==
    IF version # w.stream_version_ THEN [w EXCEPT !.thr.stale = @ + 1]
    ELSE IF w.pending_pictures_ = <<>>
    THEN Fail(w, "CallClientPictureReady: front() of empty pending_pictures_")
    ELSE LET front == Head(w.pending_pictures_)
             w1 == [w EXCEPT !.next_frame_delivered_time_ = IF @ = 0 THEN w.now ELSE @,
                             !.thr.t0 = IF w.thr.ticks = 0 THEN w.now ELSE @,
                             !.thr.ticks = @ + 1]
             late == FALSE
             w2 == IF late THEN NotifyFrameDropped(w1, front.picture_buffer_id)
                   ELSE PictureReady(w1, front)
         IN IF ~Running(w2) THEN w2
            ELSE LET w3 == [w2 EXCEPT !.pending_pictures_ = Tail(@),
                                      !.next_frame_delivered_time_ = @ + w2.frame_duration_,
                                      !.thr.delivered = IF late THEN @ ELSE @ + 1,
                                      !.thr.epoch_delivered = IF late THEN @ ELSE @ + 1,
                                      !.thr.last_seq = IF late THEN @ ELSE front.seq]
                 IN IF w3.pending_pictures_ # <<>>
                    THEN PostDelayedTask(w3, "CallClientPictureReady", w3.stream_version_,
                                         w3.next_frame_delivered_time_ - w3.now)
                    ELSE w3

(* A tick without the test of the stream version it was posted in *)
CallClientPictureReady_AnyVersion(w, version) ==
    IF w.pending_pictures_ = <<>>
    THEN Fail(w, "CallClientPictureReady: front() of empty pending_pictures_")
    ELSE LET front == Head(w.pending_pictures_)
             w1 == [w EXCEPT !.next_frame_delivered_time_ = IF @ = 0 THEN w.now ELSE @,
                             !.thr.t0 = IF w.thr.ticks = 0 THEN w.now ELSE @,
                             !.thr.ticks = @ + 1]
             late == w1.next_frame_delivered_time_ + w1.frame_duration_ < w1.now
             w2 == IF late THEN NotifyFrameDropped(w1, front.picture_buffer_id)
                   ELSE PictureReady(w1, front)
         IN IF ~Running(w2) THEN w2
            ELSE LET w3 == [w2 EXCEPT !.pending_pictures_ = Tail(@),
                                      !.next_frame_delivered_time_ = @ + w2.frame_duration_,
                                      !.thr.delivered = IF late THEN @ ELSE @ + 1,
                                      !.thr.epoch_delivered = IF late THEN @ ELSE @ + 1,
                                      !.thr.last_seq = IF late THEN @ ELSE front.seq]
                 IN IF w3.pending_pictures_ # <<>>
                    THEN PostDelayedTask(w3, "CallClientPictureReady", w3.stream_version_,
                                         w3.next_frame_delivered_time_ - w3.now)
                    ELSE w3

CallClientPictureReady(w, version) ==
    IF version # w.stream_version_ THEN [w EXCEPT !.thr.stale = @ + 1]
    ELSE IF w.pending_pictures_ = <<>>
    THEN Fail(w, "CallClientPictureReady: front() of empty pending_pictures_")
    ELSE LET front == Head(w.pending_pictures_)
             w1 == [w EXCEPT !.next_frame_delivered_time_ = IF @ = 0 THEN w.now ELSE @,
                             !.thr.t0 = IF w.thr.ticks = 0 THEN w.now ELSE @,
                             !.thr.ticks = @ + 1]
             late == w1.next_frame_delivered_time_ + w1.frame_duration_ < w1.now
             w2 == IF late THEN NotifyFrameDropped(w1, front.picture_buffer_id)
                   ELSE PictureReady(w1, front)
         IN IF ~Running(w2) THEN w2
            ELSE LET w3 == [w2 EXCEPT !.pending_pictures_ = Tail(@),
                                      !.next_frame_delivered_time_ = @ + w2.frame_duration_,
                                      !.thr.delivered = IF late THEN @ ELSE @ + 1,
                                      !.thr.epoch_delivered = IF late THEN @ ELSE @ + 1,
                                      !.thr.last_seq = IF late THEN @ ELSE front.seq]
                 IN IF w3.pending_pictures_ # <<>>
                    THEN PostDelayedTask(w3, "CallClientPictureReady", w3.stream_version_,
                                         w3.next_frame_delivered_time_ - w3.now)
                    ELSE w3

(* A flush-complete callback passed on whatever is queued *)
ThrottlingNotifyFlushDone_AtOnce(w) ==
    NotifyFlushDone([w EXCEPT !.thr.flush_out = @ + 1])

ThrottlingNotifyFlushDone(w) ==
    IF w.pending_pictures_ # <<>>
    THEN PostDelayedTask([w EXCEPT !.thr.deferred = TRUE], "NotifyFlushDone", 0,
                         w.next_frame_delivered_time_ - w.now)
    ELSE NotifyFlushDone([w EXCEPT !.thr.flush_out = @ + 1])

(* A drain that forgets the queued pictures without recycling them *)
DropPending_Forget(w) == [w EXCEPT !.pending_pictures_ = <<>>]

RECURSIVE DropPending(_)
(* while (!pending_pictures_.empty()) reuse_picture_cb_.Run(front); pop_front *)
DropPending(w) ==
    IF ~Running(w) \/ w.pending_pictures_ = <<>> THEN w
    ELSE DropPending([NotifyFrameDropped(w, Head(w.pending_pictures_).picture_buffer_id)
                         EXCEPT !.pending_pictures_ = Tail(@)])

(* A reset-complete callback that leaves the stream version as it was *)
ThrottlingNotifyResetDone_SameVersion(w) ==
    LET w1 == DropPending(w)
    IN IF ~Running(w1) THEN w1
       ELSE NotifyResetDone([w1 EXCEPT !.next_frame_delivered_time_ = 0,
                                       !.thr.t0 = 0, !.thr.ticks = 0,
                                       !.thr.epoch_delivered = 0])

(* A reset-complete callback passed on before the queue is drained *)
ThrottlingNotifyResetDone_ForwardFirst(w) ==
    LET w1 == NotifyResetDone([w EXCEPT !.stream_version_ = @ + 1])
        w2 == DropPending(w1)
    IN IF ~Running(w2) THEN w2
       ELSE [w2 EXCEPT !.next_frame_delivered_time_ = 0,
                       !.thr.t0 = 0, !.thr.ticks = 0,
                       !.thr.epoch_delivered = 0]

(* A reset-complete callback passed on with the queue and the stream       *)
(* version left as they were                                               *)
ThrottlingNotifyResetDone_KeepQueue(w) ==
    NotifyResetDone([w EXCEPT !.next_frame_delivered_time_ = 0,
                              !.thr.t0 = 0, !.thr.ticks = 0,
                              !.thr.epoch_delivered = 0])

ThrottlingNotifyResetDone(w) ==
    LET w1 == DropPending([w EXCEPT !.stream_version_ = @ + 1])
    IN IF ~Running(w1) THEN w1
       ELSE NotifyResetDone([w1 EXCEPT !.next_frame_delivered_time_ = 0,
                                       !.thr.t0 = 0, !.thr.ticks = 0,
                                       !.thr.epoch_delivered = 0])

-----------------------------------------------------------------------------
(* TestSimpleDecode: the states the harness waits for, in order *)
RECURSIVE PlayThroughWaits(_)
PlayThroughWaits(n) ==
    IF n = 0 THEN <<>>
    ELSE PlayThroughWaits(n - 1)
         \o (IF n > 1 THEN <<CS_INITIALIZED>> ELSE <<>>)
         \o <<CS_FLUSHING, CS_FLUSHED, CS_RESETTING>>

HarnessPlan(plays) ==
    <<CS_DECODER_SET, CS_INITIALIZED>> \o PlayThroughWaits(plays)
        \o <<CS_RESET, CS_DESTROYED>>

(* The outcome of the wait that returns state, the h_step-th of the plan:    *)
(* ASSERT_EQ on the first, the ASSERT_GT of a failed initialization on the  *)
(* second, AssertWaitForStateOrDeleted on the others.                       *)
(* A test body that takes every failed initialization as a failure *)
WaitOutcome_NoneTolerated(step, state, expected, deleted, concurrent) ==
    IF step = 1
    THEN IF state = CS_DECODER_SET THEN "running" ELSE "failed"
    ELSE IF step = 2
    THEN IF state = CS_INITIALIZED THEN "running" ELSE "failed"
    ELSE IF state = expected \/ deleted THEN "running" ELSE "failed"

WaitOutcome(step, state, expected, deleted, concurrent) ==
    IF step = 1
    THEN IF state = CS_DECODER_SET THEN "running" ELSE "failed"
    ELSE IF step = 2
    THEN IF state = CS_INITIALIZED THEN "running"
         ELSE IF concurrent > kMinSupportedNumConcurrentDecoders THEN "skipped"
         ELSE "failed"
    ELSE IF state = expected \/ deleted THEN "running" ELSE "failed"

-----------------------------------------------------------------------------
(* The initial state: the driver as its constructor leaves it, for each     *)
(* parameter tuple of the test and each stream, before CreateDecoder runs.  *)
ResetPolicies == {START_OF_STREAM_RESET, END_OF_STREAM_RESET} \cup (1..MaxResetFrame)

DeleteStates == {-n : n \in 1..MaxDeleteAfter} \cup (CS_DECODER_SET..CS_RESET)

(* base::TimeTicks: the null time is 0, the clock starts after it *)
NoThrottlingClient ==
    /\ throttling_client_ = FALSE
    /\ frame_duration_ = 0
    /\ next_frame_delivered_time_ = 0
    /\ throttling_num_decoded_frames_ = 0
    /\ stream_version_ = 0
    /\ pending_pictures_ = <<>>
    /\ tasks = <<>>
    /\ now = 1
    /\ thr = [delivered |-> 0, dropped |-> 0, flush_in |-> 0, flush_out |-> 0, reset_in |-> 0,
              t0 |-> 0, ticks |-> 0, epoch_delivered |-> 0, last_seq |-> 0,
              stale |-> 0, deferred |-> FALSE]

(* the fields that do not depend on the stream; ids are the values the    *)
(* bitstream buffer id counter starts from                                *)
InitFieldsFrom(ids, inflight, plays, resets, deletes, concurrent) ==
    /\ num_in_flight_decodes_ \in inflight
    /\ num_play_throughs \in plays
    /\ remaining_play_throughs_ = num_play_throughs
    /\ reset_after_frame_num \in resets
    /\ reset_after_frame_num_ = reset_after_frame_num
    /\ delete_decoder_state_ \in deletes
    /\ num_concurrent_decoders \in concurrent
    /\ outstanding_decodes_ = 0
    /\ encoded_data_next_pos_to_decode_ = 0
    /\ next_bitstream_buffer_id_ \in ids
    /\ note_ = <<>>
    /\ decoder_ = FALSE
    /\ outstanding_texture_ids_ = {}
    /\ state_ = CS_CREATED
    /\ num_skipped_fragments_ = 0
    /\ num_queued_fragments_ = 0
    /\ num_decoded_frames_ = 0
    /\ num_done_bitstream_buffers_ = 0
    /\ picture_buffers_by_id_ = {}
    /\ vda_init = "none"
    /\ vda_queue = <<>>
    /\ vda_pics = <<>>
    /\ vda_bufs = {}
    /\ vda_out = {}
    /\ vda_error = FALSE
    /\ textures = {}
    /\ next_texture_id = 1
    /\ deleted_textures = {}
    /\ double_delete = FALSE
    /\ calls = [decode |-> 0, flush |-> 0, reset |-> 0, destroy |-> 0,
                destroy_state |-> -1, destroy_at |-> -1]
    /\ h_step = 0
    /\ h_status = "running"
    /\ destructed = FALSE
    /\ failed = "none"
    /\ dchecks = {}

(* the constructor sets next_bitstream_buffer_id_ to 0 *)
InitFields(inflight, plays, resets, deletes, concurrent) ==
    InitFieldsFrom({0}, inflight, plays, resets, deletes, concurrent)

(* no fragmenter is called on its own *)
NoFragment == [kind |-> "none", units |-> <<>>, start_pos |-> 0, bytes |-> <<>>, calls |-> 0]

InitDriver(streams, inflight, plays, resets, deletes, concurrent) ==
    /\ encoded_data_ \in streams
    /\ InitFields(inflight, plays, resets, deletes, concurrent)
    /\ num_fragments = NumFragments(encoded_data_, 0)
    /\ num_frames = NumFrames(encoded_data_)
                       + (IF reset_after_frame_num > 0 THEN reset_after_frame_num ELSE 0)
    /\ frag = NoFragment

(* rendering_fps = 0: no throttling client *)
InitWith(streams, inflight, plays, resets, deletes, concurrent) ==
    /\ InitDriver(streams, inflight, plays, resets, deletes, concurrent)
    /\ NoThrottlingClient

Init ==
    InitWith(TestStreams, 1..MaxInFlight, 1..MaxPlayThroughs, ResetPolicies,
             DeleteStates,
             {kMinSupportedNumConcurrentDecoders, kMinSupportedNumConcurrentDecoders + 1})

-----------------------------------------------------------------------------
(* The program runs until a CHECK fails or the driver is deleted *)
Alive == failed = "none" /\ ~destructed

(* the accelerator makes callbacks while it exists and has reported no error *)
VdaCalls == Alive /\ decoder_ /\ ~vda_error

RECURSIVE DropStale(_)
DropStale(q) ==
    IF q = <<>> THEN <<>>
    ELSE (IF Head(q).stale THEN <<>> ELSE <<Head(q)>>) \o DropStale(Tail(q))

(* the harness posts CreateDecoder to the rendering thread *)
DoCreateDecoder ==
    /\ Alive /\ state_ = CS_CREATED /\ ~decoder_
    /\ Commit(CreateDecoder(W))
    /\ UNCHANGED harness_vars

DoNotifyInitializeDone ==
    /\ VdaCalls /\ vda_init = "pending"
    /\ Commit(NotifyInitializeDone([W EXCEPT !.vda_init = "done"]))
    /\ UNCHANGED harness_vars

DoProvidePictureBuffers ==
    /\ VdaCalls /\ vda_init = "done"
    /\ \E n \in 1..MaxBuffers :
          /\ Cardinality(vda_bufs) + n <= MaxBuffers
          /\ next_texture_id + n <= MaxTextures + 1
          /\ Commit(ProvidePictureBuffers(W, n))
    /\ UNCHANGED harness_vars

DoDismissPictureBuffer ==
    /\ VdaCalls
    /\ \E id \in vda_bufs \ vda_out :
          Commit(DismissPictureBuffer([W EXCEPT !.vda_bufs = @ \ {id}], id))
    /\ UNCHANGED harness_vars

(* The accelerator works through its queue in call order.  It returns the    *)
(* unit at the head; a unit that a Reset() found pending is dropped and     *)
(* yields no picture.                                                       *)
DoNotifyEndOfBitstreamBuffer ==
    /\ VdaCalls /\ vda_queue # <<>> /\ Head(vda_queue).kind = "decode"
    /\ LET u == Head(vda_queue)
       IN Commit(NotifyEndOfBitstreamBuffer(
                    [W EXCEPT !.vda_queue = Tail(@),
                              !.vda_pics = IF u.frame /\ ~u.stale
                                           THEN Append(@, Entry("picture", u.id, TRUE))
                                           ELSE @]))
    /\ UNCHANGED harness_vars

DoPictureReady ==
    /\ VdaCalls /\ vda_pics # <<>>
    /\ \E b \in vda_bufs \ vda_out :
          Commit(PictureReady([W EXCEPT !.vda_pics = Tail(@), !.vda_out = @ \cup {b}],
                              [picture_buffer_id |-> b,
                               bitstream_buffer_id |-> Head(vda_pics).id]))
    /\ UNCHANGED harness_vars

DoNotifyFlushDone ==
    /\ VdaCalls /\ vda_queue # <<>> /\ Head(vda_queue).kind = "flush"
    /\ \A i \in DOMAIN vda_pics : vda_pics[i].stale
    /\ Commit(NotifyFlushDone([W EXCEPT !.vda_queue = Tail(@)]))
    /\ UNCHANGED harness_vars

DoNotifyResetDone ==
    /\ VdaCalls /\ vda_queue # <<>> /\ Head(vda_queue).kind = "reset"
    /\ Commit(NotifyResetDone([W EXCEPT !.vda_queue = Tail(@),
                                        !.vda_pics = DropStale(@)]))
    /\ UNCHANGED harness_vars

DoNotifyError ==
    /\ VdaCalls
    /\ Commit(NotifyError([W EXCEPT !.vda_error = TRUE]))
    /\ UNCHANGED harness_vars

(* note->Wait() returns the next notified state to the test body *)
HarnessWait ==
    /\ failed = "none" /\ h_status = "running" /\ h_step < Len(note_)
    /\ LET plan == HarnessPlan(num_play_throughs)
           outcome == WaitOutcome(h_step + 1, note_[h_step + 1], plan[h_step + 1],
                                  ~decoder_, num_concurrent_decoders)
       IN /\ h_step' = h_step + 1
          /\ h_status' = IF outcome = "running" /\ h_step + 1 = Len(plan)
                         THEN "done" ELSE outcome
    /\ UNCHANGED <<num_concurrent_decoders, num_play_throughs, reset_after_frame_num, num_frames, num_fragments, frag,
                   destructed>>
    /\ Commit(W)

(* STLDeleteElements(&clients), posted once the waits are over *)
DoDestructor ==
    /\ Alive /\ h_status \in {"done", "skipped"}
    /\ Commit(Destructor(W))
    /\ destructed' = TRUE
    /\ UNCHANGED <<num_concurrent_decoders, num_play_throughs, reset_after_frame_num, num_frames, num_fragments, frag,
                   h_step, h_status>>

(* The driver with an accelerator that keeps the picture buffers it was    *)
(* given until it is destroyed                                             *)
Next ==
    \/ DoCreateDecoder
    \/ DoNotifyInitializeDone
    \/ DoProvidePictureBuffers
    \/ DoNotifyEndOfBitstreamBuffer
    \/ DoPictureReady
    \/ DoNotifyFlushDone
    \/ DoNotifyResetDone
    \/ DoNotifyError
    \/ HarnessWait
    \/ DoDestructor

Spec == Init /\ [][Next]_vars

(* The last play-throughs of a long run.  Every play-through of a stream   *)
(* assigns one id per fragment and the counter is never set back, so that  *)
(* it comes within MaxBeforeWrap of 0x3FFFFFFF after enough fragments;     *)
(* what the driver does next depends on the counter only through           *)
(* DecodeNextFragment and PictureReady.  The other counters and note_      *)
(* count from the start of the play-throughs followed here.                *)
MaxBeforeWrap == 3

InitWrap ==
    /\ encoded_data_ \in TestStreams
    /\ InitFieldsFrom({0} \cup ((IdMod - MaxBeforeWrap)..(IdMod - 1)),
                      1..MaxInFlight, 1..MaxPlayThroughs, {END_OF_STREAM_RESET},
                      {CS_RESET}, {kMinSupportedNumConcurrentDecoders})
    /\ num_fragments = NumFragments(encoded_data_, 0)
    /\ num_frames = NumFrames(encoded_data_)
    /\ frag = NoFragment
    /\ NoThrottlingClient

SpecWrap == InitWrap /\ [][Next]_vars

(* delete_decoder_state over the whole of ClientState: "N>=0 means         *)
(* interpret as ClientState"                                               *)
ClientStates == CS_CREATED..CS_DESTROYED

InitTearDown ==
    InitWith(TestStreams, {1}, 1..MaxPlayThroughs, {END_OF_STREAM_RESET},
             ClientStates, {kMinSupportedNumConcurrentDecoders})

SpecTearDown == InitTearDown /\ [][Next]_vars

(* A stream of two fragments, SPS and one slice, decoded with up to        *)
(* MaxInFlight + 1 decodes in flight                                       *)
StreamShort == NALU(7, <<>>) \o NALU(5, <<>>)

InitShort ==
    InitWith({StreamShort}, 1..(MaxInFlight + 1), 1..MaxPlayThroughs,
             {END_OF_STREAM_RESET}, {CS_RESET}, {kMinSupportedNumConcurrentDecoders})

SpecShort == InitShort /\ [][Next]_vars

(* The message loops run every task that is posted, and an accelerator     *)
(* that has reported no error answers every call it was given.  Nothing    *)
(* obliges the accelerator to report an error.  A callback of the          *)
(* accelerator changes vda_init or vda_queue, so that it is enabled        *)
(* exactly when its guard holds, and weak fairness of the callback is      *)
(* written with that guard.                                                *)
CanNotifyInitializeDone == VdaCalls /\ vda_init = "pending"

CanNotifyEndOfBitstreamBuffer ==
    VdaCalls /\ vda_queue # <<>> /\ Head(vda_queue).kind = "decode"

CanNotifyFlushDone ==
    /\ VdaCalls /\ vda_queue # <<>> /\ Head(vda_queue).kind = "flush"
    /\ \A i \in DOMAIN vda_pics : vda_pics[i].stale

CanNotifyResetDone ==
    VdaCalls /\ vda_queue # <<>> /\ Head(vda_queue).kind = "reset"

Fairness ==
    /\ WF_vars(DoCreateDecoder)
    /\ ([]<>~CanNotifyInitializeDone \/ []<><<DoNotifyInitializeDone>>_vars)
    /\ WF_vars(DoProvidePictureBuffers)
    /\ ([]<>~CanNotifyEndOfBitstreamBuffer \/ []<><<DoNotifyEndOfBitstreamBuffer>>_vars)
    /\ WF_vars(DoPictureReady)
    /\ ([]<>~CanNotifyFlushDone \/ []<><<DoNotifyFlushDone>>_vars)
    /\ ([]<>~CanNotifyResetDone \/ []<><<DoNotifyResetDone>>_vars)
    /\ WF_vars(HarnessWait)
    /\ WF_vars(DoDestructor)

(* TearDownTiming: every delete_decoder_state, for each number of       *)
(* play-throughs, with the reset at the start or at the end of the stream *)
InitFair ==
    InitWith({StreamSkip}, {1}, 1..MaxPlayThroughs,
             {START_OF_STREAM_RESET, END_OF_STREAM_RESET}, DeleteStates,
             {kMinSupportedNumConcurrentDecoders})

SpecFair == InitFair /\ [][Next]_vars /\ Fairness

(* The picture buffer pool: the accelerator also dismisses picture buffers *)
(* and asks for new ones, for one stream decoded one unit at a time        *)
InitPool ==
    InitWith({StreamPlain}, {1}, {1}, ResetPolicies, DeleteStates,
             {kMinSupportedNumConcurrentDecoders, kMinSupportedNumConcurrentDecoders + 1})

NextPool ==
    \/ DoCreateDecoder
    \/ DoNotifyInitializeDone
    \/ DoProvidePictureBuffers
    \/ DoDismissPictureBuffer
    \/ DoNotifyEndOfBitstreamBuffer
    \/ DoPictureReady
    \/ DoNotifyFlushDone
    \/ DoNotifyResetDone
    \/ DoNotifyError
    \/ HarnessWait
    \/ DoDestructor

SpecPool == InitPool /\ [][NextPool]_vars

(* The ids of the picture buffers: the accelerator holds up to              *)
(* MaxPoolBuffers buffers, dismisses any of them and asks for more          *)
DoProvidePoolBuffers ==
    /\ VdaCalls /\ vda_init = "done"
    /\ \E n \in 1..MaxPoolBuffers :
          /\ Cardinality(vda_bufs) + n <= MaxPoolBuffers
          /\ next_texture_id + n <= MaxPoolTextures + 1
          /\ Commit(ProvidePictureBuffers(W, n))
    /\ UNCHANGED harness_vars

InitIds ==
    InitWith({StreamPlain}, {1}, {1}, {END_OF_STREAM_RESET}, {CS_RESET},
             {kMinSupportedNumConcurrentDecoders})

NextIds ==
    \/ DoCreateDecoder
    \/ DoNotifyInitializeDone
    \/ DoProvidePoolBuffers
    \/ DoDismissPictureBuffer
    \/ DoNotifyEndOfBitstreamBuffer
    \/ DoPictureReady
    \/ DoNotifyFlushDone
    \/ DoNotifyResetDone
    \/ DoNotifyError
    \/ HarnessWait

SpecIds == InitIds /\ [][NextIds]_vars

(* The parameter tuples are those of the TearDownTiming and MidStreamReset *)
(* instantiations, a mid-stream reset coming after frame 1 in a stream of  *)
(* no more than kMaxResetAfterFrameNum frames.                              *)
(* rendering_fps > 0: the accelerator's client is the throttling client.   *)
(* It passes ProvidePictureBuffers, DismissPictureBuffer,                  *)
(* NotifyInitializeDone, NotifyEndOfBitstreamBuffer and NotifyError on as  *)
(* they come.                                                              *)
ThrottlingClient ==
    /\ throttling_client_ = TRUE
    /\ frame_duration_ \in 1..MaxFrameDuration
    /\ next_frame_delivered_time_ = 0
    /\ throttling_num_decoded_frames_ = 0
    /\ stream_version_ = 0
    /\ pending_pictures_ = <<>>
    /\ tasks = <<>>
    /\ now = 1
    /\ thr = [delivered |-> 0, dropped |-> 0, flush_in |-> 0, flush_out |-> 0, reset_in |-> 0,
              t0 |-> 0, ticks |-> 0, epoch_delivered |-> 0, last_seq |-> 0,
              stale |-> 0, deferred |-> FALSE]

InitThrottling ==
    /\ \/ InitDriver({StreamSkip}, {1}, {1}, {END_OF_STREAM_RESET},
                     {CS_FLUSHING, CS_RESETTING, CS_RESET},
                     {kMinSupportedNumConcurrentDecoders})
       \/ InitDriver({StreamSkip}, {1}, {1}, {1}, {CS_RESET},
                     {kMinSupportedNumConcurrentDecoders})
    /\ ThrottlingClient

DoThrottlingPictureReady ==
    /\ VdaCalls /\ throttling_client_ /\ vda_pics # <<>>
    /\ \E b \in vda_bufs \ vda_out :
          Commit(ThrottlingPictureReady(
                     [W EXCEPT !.vda_pics = Tail(@), !.vda_out = @ \cup {b}],
                     [picture_buffer_id |-> b,
                      bitstream_buffer_id |-> Head(vda_pics).id]))
    /\ UNCHANGED harness_vars

DoThrottlingNotifyFlushDone ==
    /\ VdaCalls /\ throttling_client_
    /\ vda_queue # <<>> /\ Head(vda_queue).kind = "flush"
    /\ \A i \in DOMAIN vda_pics : vda_pics[i].stale
    /\ Commit(ThrottlingNotifyFlushDone([W EXCEPT !.vda_queue = Tail(@),
                                                  !.thr.flush_in = @ + 1]))
    /\ UNCHANGED harness_vars

DoThrottlingNotifyResetDone ==
    /\ VdaCalls /\ throttling_client_
    /\ vda_queue # <<>> /\ Head(vda_queue).kind = "reset"
    /\ Commit(ThrottlingNotifyResetDone([W EXCEPT !.vda_queue = Tail(@),
                                                  !.vda_pics = DropStale(@),
                                                  !.thr.reset_in = @ + 1]))
    /\ UNCHANGED harness_vars

(* the delayed task the message loop runs next: the earliest due, the first *)
(* posted among equals                                                      *)
NextTask ==
    CHOOSE i \in DOMAIN tasks :
        \A j \in DOMAIN tasks :
            tasks[i].due < tasks[j].due \/ (tasks[i].due = tasks[j].due /\ i <= j)

RemoveTask(q, i) == SubSeq(q, 1, i - 1) \o SubSeq(q, i + 1, Len(q))

DoCallClientPictureReady ==
    /\ Alive /\ tasks # <<>>
    /\ tasks[NextTask].kind = "CallClientPictureReady"
    /\ tasks[NextTask].due <= now
    /\ Commit(CallClientPictureReady([W EXCEPT !.tasks = RemoveTask(@, NextTask)],
                                     tasks[NextTask].version))
    /\ UNCHANGED harness_vars

(* the NotifyFlushDone the throttling client posted to itself *)
DoRetryNotifyFlushDone ==
    /\ Alive /\ tasks # <<>>
    /\ tasks[NextTask].kind = "NotifyFlushDone"
    /\ tasks[NextTask].due <= now
    /\ Commit(ThrottlingNotifyFlushDone([W EXCEPT !.tasks = RemoveTask(@, NextTask)]))
    /\ UNCHANGED harness_vars

(* time passes *)
Tick ==
    /\ Alive /\ throttling_client_ /\ now < MaxTime
    /\ Commit([W EXCEPT !.now = @ + 1])
    /\ UNCHANGED harness_vars

NextThrottling ==
    \/ DoCreateDecoder
    \/ DoNotifyInitializeDone
    \/ DoProvidePoolBuffers
    \/ DoNotifyEndOfBitstreamBuffer
    \/ DoThrottlingPictureReady
    \/ DoCallClientPictureReady
    \/ DoThrottlingNotifyFlushDone
    \/ DoRetryNotifyFlushDone
    \/ DoThrottlingNotifyResetDone
    \/ Tick
    \/ HarnessWait
    \/ DoDestructor

SpecThrottling == InitThrottling /\ [][NextThrottling]_vars

(* The throttled driver under fair scheduling.  The clock is followed tick  *)
(* by tick up to MaxTime; after that the message loop sleeps until its next *)
(* delayed task is due, up to LastTime: a run that delivers its pictures    *)
(* and stops needs no more than one frame duration after MaxTime.           *)
LastTime == MaxTime + MaxFrameDuration

(* remaining_play_throughs_ is written by --remaining_play_throughs_ in     *)
(* NotifyFlushDone only: once below zero it stays there and counts down     *)
(* without a bound.  The run is followed up to that point.                  *)
Followed == remaining_play_throughs_ >= 0

DoSleepUntilDue ==
    /\ Alive /\ throttling_client_ /\ tasks # <<>>
    /\ now >= MaxTime
    /\ tasks[NextTask].due > now /\ tasks[NextTask].due <= LastTime
    /\ Commit([W EXCEPT !.now = tasks[NextTask].due])
    /\ UNCHANGED harness_vars

NextFairThrottling ==
    \/ Followed /\ DoCreateDecoder
    \/ Followed /\ DoNotifyInitializeDone
    \/ Followed /\ DoProvidePoolBuffers
    \/ Followed /\ DoNotifyEndOfBitstreamBuffer
    \/ Followed /\ DoThrottlingPictureReady
    \/ Followed /\ DoCallClientPictureReady
    \/ Followed /\ DoThrottlingNotifyFlushDone
    \/ Followed /\ DoRetryNotifyFlushDone
    \/ Followed /\ DoThrottlingNotifyResetDone
    \/ Followed /\ Tick
    \/ Followed /\ DoSleepUntilDue
    \/ Followed /\ HarnessWait
    \/ Followed /\ DoDestructor

(* the delayed task at the head of the message loop is due *)
CanRunTask(kind) ==
    /\ Alive /\ tasks # <<>>
    /\ tasks[NextTask].kind = kind
    /\ tasks[NextTask].due <= now

FairnessThrottling ==
    /\ WF_vars(Followed /\ DoCreateDecoder)
    /\ ([]<>~(Followed /\ CanNotifyInitializeDone) \/ []<><<DoNotifyInitializeDone>>_vars)
    /\ WF_vars(Followed /\ DoProvidePoolBuffers)
    /\ ([]<>~(Followed /\ CanNotifyEndOfBitstreamBuffer)
          \/ []<><<DoNotifyEndOfBitstreamBuffer>>_vars)
    /\ WF_vars(Followed /\ DoThrottlingPictureReady)
    /\ ([]<>~(Followed /\ CanRunTask("CallClientPictureReady"))
          \/ []<><<DoCallClientPictureReady>>_vars)
    /\ ([]<>~(Followed /\ CanNotifyFlushDone)
          \/ []<><<DoThrottlingNotifyFlushDone>>_vars)
    /\ ([]<>~(Followed /\ CanRunTask("NotifyFlushDone")) \/ []<><<DoRetryNotifyFlushDone>>_vars)
    /\ ([]<>~(Followed /\ CanNotifyResetDone)
          \/ []<><<DoThrottlingNotifyResetDone>>_vars)
    /\ WF_vars(Followed /\ Tick)
    /\ WF_vars(Followed /\ DoSleepUntilDue)
    /\ WF_vars(Followed /\ HarnessWait)
    /\ WF_vars(Followed /\ DoDestructor)

(* the EndOfStream tuple and the MidStreamReset tuple at one frame rate *)
InitFairThrottling ==
    /\ \/ InitDriver({StreamSkip}, {1}, {1}, {END_OF_STREAM_RESET}, {CS_RESET},
                     {kMinSupportedNumConcurrentDecoders})
       \/ InitDriver({StreamSkip}, {1}, {1}, {1}, {CS_RESET},
                     {kMinSupportedNumConcurrentDecoders})
    /\ ThrottlingClient
    /\ frame_duration_ = 1

SpecFairThrottling ==
    InitFairThrottling /\ [][NextFairThrottling]_vars /\ FairnessThrottling

(* GetBytesForNextFrame on its own: a VP8 client reads a well-formed IVF    *)
(* file of 1..MaxUnits frames front to back, as DecodeNextFragment does     *)
(* until encoded_data_next_pos_to_decode_ is encoded_data_.size()           *)
FrameBytes == {0, 1, 255}

Payloads(bytes, min) == UNION {[1..n -> bytes] : n \in min..MaxPayload}

UnitSeqs(payloads) == UNION {[1..n -> payloads] : n \in 1..MaxUnits}

InitFragmenter(kind, units, encoded) ==
    /\ frag = [kind |-> kind, units |-> units, start_pos |-> 0, bytes |-> <<>>, calls |-> 0]
    /\ encoded_data_ = encoded
    /\ InitFields({1}, {1}, {END_OF_STREAM_RESET}, {CS_RESET},
                  {kMinSupportedNumConcurrentDecoders})
    /\ num_fragments = Len(units)
    /\ num_frames = Len(units)
    /\ NoThrottlingClient

InitFrames ==
    \E units \in UnitSeqs(Payloads(FrameBytes, 1)) :
        InitFragmenter("ivf", units, IvfStream(units))

(* a call of the fragmenter: its result, the cursor and the counters *)
CallFragmenter(f) ==
    /\ frag' = [frag EXCEPT !.start_pos = encoded_data_next_pos_to_decode_,
                            !.bytes = f.bytes, !.calls = @ + 1]
    /\ Commit(IF f.ok
              THEN [W EXCEPT !.encoded_data_next_pos_to_decode_ = f.end_pos,
                             !.num_queued_fragments_ = @ + f.queued,
                             !.num_skipped_fragments_ = @ + f.skipped]
              ELSE Fail(W, "GetBytesForNextNALU: CHECK(LookingAtNAL)"))
    /\ UNCHANGED <<num_concurrent_decoders, num_play_throughs, reset_after_frame_num,
                   num_frames, num_fragments, h_step, h_status, destructed>>

DoGetBytesForNextFrame ==
    /\ frag.kind = "ivf" /\ failed = "none"
    /\ encoded_data_next_pos_to_decode_ # Len(encoded_data_)
    /\ CallFragmenter(GetBytesForNextFrame(encoded_data_, encoded_data_next_pos_to_decode_))

NextFrames == DoGetBytesForNextFrame

SpecFrames == InitFrames /\ [][NextFrames]_vars

(* GetBytesForFirstFragment and GetBytesForNextFragment on their own: an    *)
(* H.264 client reads a buffer made of 1..MaxUnits units, each the start    *)
(* code and 0..MaxPayload bytes that hold no start code, as                 *)
(* DecodeNextFragment does.  A buffer without SPS is read again and again   *)
(* from position 0; the calls on a buffer are capped.                       *)
NalBytes == {0, 1, 103}

kStartCode == <<0, 0, 0, 1>>

MarkerFree(body) ==
    \A i \in 1..(Len(body) - 3) : SubSeq(body, i, i + 3) # kStartCode

RECURSIVE NalStream(_)
NalStream(units) ==
    IF units = <<>> THEN <<>> ELSE kStartCode \o Head(units) \o NalStream(Tail(units))

InitNalus ==
    \E units \in UnitSeqs({b \in Payloads(NalBytes, 0) : MarkerFree(b)}) :
        InitFragmenter("nal", units, NalStream(units))

CanCallFragmenter ==
    /\ frag.kind = "nal" /\ failed = "none"
    /\ frag.calls <= Len(frag.units)
    /\ encoded_data_next_pos_to_decode_ # Len(encoded_data_)

DoGetBytesForFirstFragment ==
    /\ CanCallFragmenter
    /\ encoded_data_next_pos_to_decode_ = 0
    /\ CallFragmenter(GetBytesForFirstFragment(encoded_data_, 0))

DoGetBytesForNextFragment ==
    /\ CanCallFragmenter
    /\ encoded_data_next_pos_to_decode_ # 0
    /\ CallFragmenter(GetBytesForNextFragment(encoded_data_,
                                              encoded_data_next_pos_to_decode_))

NextNalus ==
    \/ DoGetBytesForFirstFragment
    \/ DoGetBytesForNextFragment

SpecNalus == InitNalus /\ [][NextNalus]_vars

-----------------------------------------------------------------------------
(* Properties *)

IsPrefix(s, t) == Len(s) <= Len(t) /\ s = SubSeq(t, 1, Len(s))

(* the states a, a + 1, ..., b as a sequence *)
StatesFromTo(a, b) == [i \in 1..(b - a + 1) |-> a + i - 1]

Notified(state) == \E i \in DOMAIN note_ : note_[i] = state

(* the notifications made since Destroy() was called on the accelerator *)
NotifiedSinceDestroy == SubSeq(note_, calls.destroy_at + 1, Len(note_))

(* C1: a driver with one decode in flight, one play-through, the reset at   *)
(* the end of the stream and the decoder deleted at CS_RESET, whose decoder *)
(* reports no error, notifies DecoderBound, Initialized, Flushing, Flushed, *)
(* Resetting, Reset, Destroyed in this order and no other state in between. *)
C1_Scenario ==
    /\ num_in_flight_decodes_ = 1
    /\ num_play_throughs = 1
    /\ reset_after_frame_num = END_OF_STREAM_RESET
    /\ delete_decoder_state_ = CS_RESET
    /\ ~vda_error
    /\ failed = "none"

C1_NotifiedSequence ==
    C1_Scenario =>
        IsPrefix(note_, <<CS_DECODER_SET, CS_INITIALIZED, CS_FLUSHING, CS_FLUSHED,
                          CS_RESETTING, CS_RESET, CS_DESTROYED>>)

(* the run of C1 as the driver makes it: Error is notified after Reset *)
C1_ErrorNotified ==
    /\ C1_Scenario
    /\ note_ = <<CS_DECODER_SET, CS_INITIALIZED, CS_FLUSHING, CS_FLUSHED,
                 CS_RESETTING, CS_RESET, CS_ERROR, CS_DESTROYED>>

(* C2: the number of decode units submitted and not yet returned never     *)
(* exceeds num_in_flight_decodes_, whatever the reset policy, the number   *)
(* of play-throughs and the order of the accelerator's callbacks.          *)
C2_InFlightBound ==
    failed = "none" => outstanding_decodes_ <= num_in_flight_decodes_

(* more units are with the accelerator than the driver may have in flight *)
C2_OverSubmitted ==
    /\ failed = "none"
    /\ outstanding_decodes_ > num_in_flight_decodes_
    /\ Cardinality({i \in DOMAIN vda_queue : vda_queue[i].kind = "decode"})
           > num_in_flight_decodes_

(* C3: every step in which the driver calls Flush() on the accelerator     *)
(* calls it once, ends in CS_FLUSHING, and is made with the cursor at the  *)
(* end of the stream and no decode unit outstanding.                       *)
C3_FlushAtEndOfStream ==
    [][calls'.flush # calls.flush =>
          /\ calls'.flush = calls.flush + 1
          /\ state_' = CS_FLUSHING
          /\ encoded_data_' # <<>>
          /\ encoded_data_next_pos_to_decode_' = Len(encoded_data_')
          /\ outstanding_decodes_' = 0
          /\ \A i \in DOMAIN vda_queue' : vda_queue'[i].kind # "decode"]_vars

C3_FlushRequested ==
    /\ failed = "none"
    /\ calls.flush > 0
    /\ state_ = CS_FLUSHING
    /\ num_in_flight_decodes_ > 1

C5_DestroyIdempotent ==
    [][(destructed' /\ ~destructed /\ ~decoder_) =>
          /\ state_' = CS_DESTROYED
          /\ note_' = note_
          /\ calls' = calls
          /\ textures' = textures
          /\ deleted_textures' = deleted_textures]_vars

(* C5, as the driver behaves: on a driver whose decoder is destroyed,      *)
(* DeleteDecoder changes nothing, and the destructor makes no call on the  *)
(* accelerator, deletes no texture and leaves CS_DESTROYED, but notifies   *)
(* CS_DESTROYED once more.                                                 *)
C5_DestructorAfterDestroy ==
    [][(destructed' /\ ~destructed /\ ~decoder_) =>
          /\ DeleteDecoder(W) = W
          /\ state_ = CS_DESTROYED
          /\ state_' = CS_DESTROYED
          /\ note_' = Append(note_, CS_DESTROYED)
          /\ calls' = calls
          /\ textures' = textures
          /\ deleted_textures' = deleted_textures
          /\ double_delete' = double_delete
          /\ outstanding_texture_ids_' = outstanding_texture_ids_]_vars

C5_DeletedAfterForcedDestroy ==
    /\ destructed
    /\ h_status = "done"
    /\ calls.destroy = 1
    /\ calls.destroy_state = CS_RESET
    /\ deleted_textures # {}
    /\ NotifiedSinceDestroy = <<CS_ERROR, CS_DESTROYED, CS_DESTROYED>>

C7_DeleteOnEnteringState ==
    (/\ failed = "none"
     /\ ~vda_error
     /\ num_play_throughs = 1
     /\ delete_decoder_state_ \in CS_DECODER_SET..CS_RESET
     /\ Notified(delete_decoder_state_))
        => (~decoder_ /\ calls.destroy_state = delete_decoder_state_)

(* the driver is in the state it was told to delete the decoder in, past   *)
(* it by a flush, and the decoder is still there                           *)
C7_StillDecodingPastState ==
    /\ failed = "none"
    /\ ~vda_error
    /\ num_play_throughs = 1
    /\ delete_decoder_state_ = CS_INITIALIZED
    /\ state_ = CS_FLUSHING
    /\ decoder_

(* C8: with one play-through and delete_decoder_state_ = N < 0, the        *)
(* decoder is destroyed right after the (-N)-th Decode(): once -N units    *)
(* were submitted the decoder is gone and no further unit was submitted.   *)
C8_DeleteAfterDecode ==
    (/\ failed = "none"
     /\ ~vda_error
     /\ num_play_throughs = 1
     /\ delete_decoder_state_ < 0
     /\ calls.decode >= -delete_decoder_state_)
        => (~decoder_ /\ calls.decode = -delete_decoder_state_)

(* more than -N units were submitted and the decoder is still there *)
C8_DecodingPastUnit ==
    /\ failed = "none"
    /\ ~vda_error
    /\ num_play_throughs = 1
    /\ delete_decoder_state_ = -1
    /\ calls.decode > 1
    /\ decoder_

(* C9: once the decoder has been destroyed the driver is in CS_DESTROYED,  *)
(* the last state notified is CS_DESTROYED, no texture is live, none is    *)
(* tracked as outstanding, and every texture created was deleted once;     *)
(* DeleteDecoder called in CS_FLUSHING has the same outcome.               *)
NoTextureLeaked(w) ==
    /\ w.failed = "none"
    /\ w.state_ = CS_DESTROYED
    /\ w.note_ # <<>>
    /\ w.note_[Len(w.note_)] = CS_DESTROYED
    /\ w.textures = {}
    /\ w.outstanding_texture_ids_ = {}
    /\ w.deleted_textures = 1..(w.next_texture_id - 1)
    /\ ~w.double_delete

C9_DestroyedWithoutLeak ==
    /\ (calls.destroy > 0 /\ failed = "none") => NoTextureLeaked(W)
    /\ (state_ = CS_FLUSHING /\ decoder_ /\ failed = "none")
           => NoTextureLeaked(DeleteDecoder(W))

(* the decoder was destroyed while it held a picture buffer it had not     *)
(* dismissed, after it had dismissed another                               *)
C9_DestroyedHoldingBuffers ==
    /\ failed = "none"
    /\ calls.destroy = 1
    /\ ~destructed
    /\ picture_buffers_by_id_ # {}
    /\ Cardinality(deleted_textures) > Cardinality(picture_buffers_by_id_)

(* C10: the textures tracked in outstanding_texture_ids_ are always the    *)
(* textures of the picture buffers in picture_buffers_by_id_.              *)
C10_PoolMatchesMap ==
    failed = "none" =>
        outstanding_texture_ids_ = {b.texture_id : b \in picture_buffers_by_id_}

(* after DeleteDecoder the map still holds the buffers of deleted textures *)
C10_StaleMapEntries ==
    /\ failed = "none"
    /\ ~decoder_
    /\ calls.destroy = 1
    /\ outstanding_texture_ids_ = {}
    /\ picture_buffers_by_id_ # {}
    /\ \A b \in picture_buffers_by_id_ : b.texture_id \in deleted_textures

(* C11: every ProvidePictureBuffers, also one that follows dismissals,      *)
(* gives each new picture buffer an id that no buffer in the map has, so    *)
(* the CHECK on the insertion into picture_buffers_by_id_ never fails.      *)
C11_FreshPictureBufferIds ==
    failed # "ProvidePictureBuffers: CHECK(picture_buffers_by_id_.insert)"

(* the CHECK failed on id 1: buffer 1 is in the map, buffer 0 was dismissed *)
C11_IdCollision ==
    /\ failed = "ProvidePictureBuffers: CHECK(picture_buffers_by_id_.insert)"
    /\ {b.id : b \in picture_buffers_by_id_} = {1}
    /\ deleted_textures = {1}

-----------------------------------------------------------------------------
(* The throttling client *)
TickDue ==
    /\ tasks # <<>>
    /\ tasks[NextTask].kind = "CallClientPictureReady"
    /\ tasks[NextTask].due <= now

(* the step of a tick posted under an earlier stream version *)
StaleTickStep ==
    /\ Alive /\ TickDue
    /\ tasks[NextTask].version # stream_version_
    /\ tasks' = RemoveTask(tasks, NextTask)

(* everything but the task list and the count of stale ticks *)
throttling_effects ==
    <<pending_pictures_, next_frame_delivered_time_, throttling_num_decoded_frames_,
      stream_version_, thr.delivered, thr.dropped, num_decoded_frames_, vda_out,
      vda_queue, calls, state_, failed>>

(* C12: a picture queued under stream version e is never handed to the     *)
(* driver once the stream version is above e: every queued picture carries *)
(* the current version, the picture a tick hands over is the head queued   *)
(* under the version of that moment, and a tick posted under an earlier    *)
(* version neither delivers nor recycles anything.                         *)
C12_EpochSafety ==
    [][/\ \A i \in DOMAIN pending_pictures_ :
              pending_pictures_[i].version = stream_version_
       /\ thr'.delivered # thr.delivered
              => /\ pending_pictures_ # <<>>
                 /\ Head(pending_pictures_).version = stream_version_
                 /\ stream_version_' = stream_version_
                 /\ thr'.last_seq = Head(pending_pictures_).seq
       /\ StaleTickStep => UNCHANGED throttling_effects]_vars

(* a tick of an earlier stream version has run after the reset that drained *)
(* the queue it was posted for                                              *)
C12_StaleTickRan ==
    /\ thr.stale > 0 /\ stream_version_ > 0
    /\ thr.dropped > 0 /\ thr.delivered > 0
    /\ failed = "none"

(* C13: the stream version never goes down; a step raises it exactly when  *)
(* it is a reset-complete callback of the accelerator, and then by one.    *)
C13_EpochCountsResets ==
    [][/\ stream_version_' >= stream_version_
       /\ stream_version_' - stream_version_ = thr'.reset_in - thr.reset_in
       /\ thr'.reset_in - thr.reset_in \in {0, 1}]_vars

(* both resets of a run with a mid-stream reset are complete *)
C13_TwoResetsComplete ==
    /\ thr.reset_in = 2 /\ stream_version_ = 2
    /\ reset_after_frame_num = 1
    /\ failed = "none"

(* a run of one play-through with a mid-stream reset after frame 1 has     *)
(* reached CS_DESTROYED through every state before it                      *)
CompletedWithMidStreamReset ==
    /\ throttling_client_ /\ failed = "none"
    /\ state_ = CS_DESTROYED /\ delete_decoder_state_ = CS_RESET
    /\ num_play_throughs = 1 /\ reset_after_frame_num = 1

(* C14 as stated: at completion of a run with one play-through and a       *)
(* mid-stream reset the stream version is exactly 1.                       *)
C14_EpochOneAtCompletion == CompletedWithMidStreamReset => stream_version_ = 1

(* C14: at completion of a run with one play-through and a mid-stream      *)
(* reset the stream version is the number of resets that completed: 2, the *)
(* mid-stream reset and the reset that follows the flush, when the driver  *)
(* issued the mid-stream reset, and 1 when the decoded-frame count passed  *)
(* the reset frame unseen.                                                 *)
C14_EpochCountsBothResets ==
    CompletedWithMidStreamReset
        => stream_version_ = IF reset_after_frame_num_ = END_OF_STREAM_RESET THEN 2 ELSE 1

(* the run is complete and the mid-stream reset took place *)
C14_CompletedAfterMidStreamReset ==
    /\ CompletedWithMidStreamReset
    /\ reset_after_frame_num_ = END_OF_STREAM_RESET
    /\ stream_version_ = 2

(* the NotifyFlushDone tasks the throttling client has posted to itself *)
FlushRetries == {i \in DOMAIN tasks : tasks[i].kind = "NotifyFlushDone"}

(* C15: the throttling client passes a flush-complete callback on to the   *)
(* driver only in a step that finds pending_pictures_ empty, and passes    *)
(* each one on once: a callback not yet passed on has exactly one retry    *)
(* posted, and none is passed on without having come in.  While pictures  *)
(* are queued a tick of the current stream version is posted, so the queue *)
(* a retry waits for is being emptied.                                     *)
C15_FlushDeferredUntilEmpty ==
    [][/\ (failed = "none" /\ pending_pictures_ # <<>>)
              => \E i \in DOMAIN tasks : /\ tasks[i].kind = "CallClientPictureReady"
                                         /\ tasks[i].version = stream_version_
       /\ thr'.flush_out # thr.flush_out
              => /\ pending_pictures_ = <<>>
                 /\ thr'.flush_out = thr.flush_out + 1
       /\ thr.flush_in = thr.flush_out + Cardinality(FlushRetries)
       /\ thr'.flush_in = thr'.flush_out + Cardinality(FlushRetries')]_vars

(* a flush-complete callback that came in over a non-empty queue has been  *)
(* passed on                                                               *)
C15_DeferredFlushForwarded ==
    /\ thr.deferred /\ thr.flush_in = 1 /\ thr.flush_out = 1
    /\ FlushRetries = {}
    /\ failed = "none"

(* the pictures the accelerator produced are those handed to the driver,  *)
(* those recycled without delivery and those still queued                  *)
PicturesAccounted ==
    throttling_num_decoded_frames_ = thr.delivered + thr.dropped + Len(pending_pictures_)

(* C16: in every state produced = delivered + dropped + queued, a picture  *)
(* recycled by a reset drain counting as dropped; at completion of a run,  *)
(* when the driver is in CS_DESTROYED, the queue is empty and              *)
(* delivered + dropped = produced.                                         *)
C16_PicturesAccounted ==
    throttling_client_
        => /\ PicturesAccounted
           /\ state_ = CS_DESTROYED
                  => /\ pending_pictures_ = <<>>
                     /\ throttling_num_decoded_frames_ = thr.delivered + thr.dropped

(* a run is complete in which pictures were delivered and pictures were    *)
(* dropped                                                                 *)
C16_CompletedWithDrops ==
    /\ throttling_client_ /\ failed = "none"
    /\ state_ = CS_DESTROYED /\ delete_decoder_state_ = CS_RESET
    /\ thr.delivered > 0 /\ thr.dropped > 0
    /\ throttling_num_decoded_frames_ = thr.delivered + thr.dropped

(* C17: within one stream version the k-th tick, k = 0, 1, ..., does not   *)
(* run before t0 + k * frame_duration_, t0 being the time of the first     *)
(* tick of that version; so the pictures handed to the driver by time now  *)
(* are at most (now - t0) / frame_duration_ + 1.                           *)
C17_TickPacing ==
    [][/\ thr'.ticks = thr.ticks + 1
              => now >= thr'.t0 + thr.ticks * frame_duration_
       /\ thr.ticks > 0
              => /\ (thr.ticks - 1) * frame_duration_ <= now - thr.t0
                 /\ thr.epoch_delivered <= ((now - thr.t0) \div frame_duration_) + 1]_vars

(* two pictures were handed over in one stream version, the second at the  *)
(* earliest time the pacing allows                                         *)
C17_SecondDeliveryOnTime ==
    /\ failed = "none" /\ frame_duration_ = MaxFrameDuration
    /\ thr.ticks = 2 /\ thr.epoch_delivered = 2
    /\ now = thr.t0 + frame_duration_

(* the step of a tick posted under the current stream version *)
MatchingTickStep == thr'.ticks = thr.ticks + 1

(* what a tick of the current stream version does to the queue *)
TickEffect ==
    LET front == Head(pending_pictures_)
        time == IF next_frame_delivered_time_ = 0 THEN now ELSE next_frame_delivered_time_
        late == time + frame_duration_ < now
    IN /\ pending_pictures_ # <<>>
       /\ pending_pictures_' = Tail(pending_pictures_)
       /\ next_frame_delivered_time_' = time + frame_duration_
       /\ IF late
          THEN /\ thr'.dropped = thr.dropped + 1 /\ thr'.delivered = thr.delivered
               /\ num_decoded_frames_' = num_decoded_frames_
               /\ front.picture_buffer_id \notin vda_out'
          ELSE /\ thr'.delivered = thr.delivered + 1 /\ thr'.dropped = thr.dropped
               /\ num_decoded_frames_' = num_decoded_frames_ + 1
               /\ thr'.last_seq = front.seq /\ front.seq > thr.last_seq
       /\ (\E i \in DOMAIN tasks' : /\ tasks'[i].kind = "CallClientPictureReady"
                                    /\ tasks'[i].version = stream_version_')
              <=> pending_pictures_' # <<>>

(* C18: every tick of the current stream version removes the head of       *)
(* pending_pictures_, recycling it without delivery when                   *)
(* next_frame_delivered_time_ + frame_duration_ < now and handing it to    *)
(* the driver otherwise, advances next_frame_delivered_time_ by            *)
(* frame_duration_ and posts the next tick exactly when pictures remain;   *)
(* pictures are handed over in the order they arrived.                     *)
C18_TickRemovesHead == [][MatchingTickStep => TickEffect]_vars

(* within one stream version a tick handed a picture to the driver and a  *)
(* later tick found its picture late and recycled it                       *)
C18_DeliveredThenDropped ==
    /\ failed = "none" /\ stream_version_ = 0
    /\ thr.ticks = 2 /\ thr.delivered = 1 /\ thr.dropped = 1
    /\ pending_pictures_ = <<>>
    /\ next_frame_delivered_time_ = thr.t0 + 2 * frame_duration_

(* the step of a reset-complete callback of the accelerator *)
ResetDoneStep == thr'.reset_in = thr.reset_in + 1

(* the driver's NotifyResetDone ran: it ended a mid-stream reset, or      *)
(* started the next play-through, or notified CS_RESET                     *)
ResetForwarded ==
    \/ reset_after_frame_num_ = MID_STREAM_RESET
           /\ reset_after_frame_num_' = END_OF_STREAM_RESET
    \/ /\ reset_after_frame_num_ # MID_STREAM_RESET
       /\ Len(note_') > Len(note_)
       /\ note_'[Len(note_) + 1] = IF remaining_play_throughs_ # 0
                                   THEN CS_INITIALIZED ELSE CS_RESET

(* C19: a reset-complete callback recycles every queued picture once and   *)
(* hands none to the driver, leaves pending_pictures_ empty, clears        *)
(* next_frame_delivered_time_ and passes the callback on to the driver,    *)
(* which it does after the drain: no picture is recycled through a decoder *)
(* the driver has deleted on entering CS_RESET.                            *)
C19_ResetDrainsQueue ==
    [][ResetDoneStep
          => /\ failed' = "none"
             /\ thr'.dropped = thr.dropped + Len(pending_pictures_)
             /\ thr'.delivered = thr.delivered
             /\ num_decoded_frames_' = num_decoded_frames_
             /\ \A i \in DOMAIN pending_pictures_ :
                   pending_pictures_[i].picture_buffer_id \notin vda_out'
             /\ pending_pictures_' = <<>>
             /\ next_frame_delivered_time_' = 0
             /\ ResetForwarded]_vars

(* a reset completed over a queue that held a picture, after a delivery    *)
(* had set next_frame_delivered_time_                                      *)
C19_QueueDrained ==
    /\ failed = "none" /\ thr.reset_in >= 1 /\ stream_version_ >= 1
    /\ thr.dropped >= 1 /\ thr.delivered >= 1 /\ thr.stale = 0
    /\ pending_pictures_ = <<>> /\ next_frame_delivered_time_ = 0
    /\ thr.ticks = 0

(* a run is complete: the waits of the test body are over, the driver     *)
(* notified the states of its play-throughs up to CS_RESET as the test     *)
(* body waits for them, and the decoder was deleted on CS_RESET, not       *)
(* before                                                                  *)
CompletedUnforced ==
    /\ failed = "none" /\ state_ = CS_DESTROYED
    /\ delete_decoder_state_ = CS_RESET
    /\ h_status = "done"
    /\ LET plan == HarnessPlan(num_play_throughs)
       IN SubSeq(note_, 1, Len(plan) - 1) = SubSeq(plan, 1, Len(plan) - 1)

(* C20: at completion of a run without forced destroy the driver's         *)
(* num_decoded_frames() equals the num_frames of the video file when no    *)
(* mid-stream reset is set, and is at least num_frames, which then         *)
(* includes reset_after_frame_num, when one is.                            *)
C20_DecodedFramesAsExpected ==
    CompletedUnforced
        => IF reset_after_frame_num > 0
           THEN num_decoded_frames(W) >= num_frames
           ELSE num_decoded_frames(W) = num_frames

(* a throttled run with a mid-stream reset after frame 1 is complete; the  *)
(* reset was never issued and the frames decoded are those of one pass     *)
C20_MidStreamResetMissed ==
    /\ CompletedUnforced /\ throttling_client_
    /\ reset_after_frame_num = 1 /\ reset_after_frame_num_ = 1
    /\ h_status = "done"
    /\ num_decoded_frames(W) = num_frames - 1

-----------------------------------------------------------------------------
(* The counters the test body compares when the run is over *)

(* the waits of the test body are over, none failed, and the decoder was   *)
(* deleted on CS_RESET, at the end of the last play-through                *)
RunCompleted ==
    /\ failed = "none" /\ state_ = CS_DESTROYED
    /\ delete_decoder_state_ = CS_RESET
    /\ h_status = "done"

(* C21 as stated: at completion of a run without a mid-stream reset        *)
(* num_skipped_fragments() + num_queued_fragments() is the num_fragments   *)
(* of the video file.                                                      *)
C21_FragmentsAccounted ==
    (RunCompleted /\ reset_after_frame_num <= 0)
        => num_skipped_fragments_ + num_queued_fragments_ = num_fragments

(* C21: at completion of a run of P play-throughs without a mid-stream     *)
(* reset num_skipped_fragments() + num_queued_fragments() is P times the   *)
(* num_fragments of the video file: the sum of a single play-through is    *)
(* num_fragments.                                                          *)
C21_FragmentsPerPlayThrough ==
    (RunCompleted /\ reset_after_frame_num <= 0)
        => num_skipped_fragments_ + num_queued_fragments_
               = num_play_throughs * num_fragments

(* a run of one play-through is complete on the stream that has a unit     *)
(* before its first SPS                                                    *)
C21_CompletedWithSkippedFragment ==
    /\ RunCompleted /\ reset_after_frame_num <= 0 /\ num_play_throughs = 1
    /\ num_skipped_fragments_ = 1 /\ num_queued_fragments_ = 3
    /\ num_fragments = 4

-----------------------------------------------------------------------------
(* The waits of the test body *)

(* the second wait of the test body returned a state other than            *)
(* CS_INITIALIZED                                                          *)
InitializationFailed ==
    /\ h_step >= 2 /\ Len(note_) >= 2
    /\ note_[1] = CS_DECODER_SET /\ note_[2] # CS_INITIALIZED

C24_WaitsTerminate ==
    /\ [](h_status = "failed" => vda_error)
    /\ <>(h_status = "done" \/ vda_error)

(* the test body got through its waits for two play-throughs although the  *)
(* decoder was deleted on CS_RESETTING and a wait returned a state other   *)
(* than the one expected                                                   *)
C24_DoneAfterForcedDestroy ==
    /\ h_status = "done" /\ ~vda_error /\ failed = "none"
    /\ delete_decoder_state_ = CS_RESETTING /\ num_play_throughs = 2
    /\ \E i \in 1..h_step : note_[i] # HarnessPlan(num_play_throughs)[i]

-----------------------------------------------------------------------------
(* The reset policies *)

(* PictureReady counted a picture and it is the reset_after_frame_num_-th  *)
(* one, in the last play-through                                           *)
ResetFrameDelivered ==
    /\ num_decoded_frames_' = num_decoded_frames_ + 1
    /\ reset_after_frame_num_ = num_decoded_frames_'
    /\ remaining_play_throughs_ = 1

(* C25 as stated: at the reset_after_frame_num_-th PictureReady of the     *)
(* last play-through the driver calls Reset(), state_ becomes              *)
(* CS_RESETTING and encoded_data_next_pos_to_decode_ becomes 0.            *)
C25_ResetFrameForcesResetting ==
    [][ResetFrameDelivered
          => /\ calls'.reset = calls.reset + 1
             /\ state_' = CS_RESETTING
             /\ encoded_data_next_pos_to_decode_' = 0]_vars

(* C25: at the PictureReady that makes num_decoded_frames_ equal to        *)
(* reset_after_frame_num_ while one play-through remains, and at no other  *)
(* step, the driver calls Reset() once, sets reset_after_frame_num_ to     *)
(* MID_STREAM_RESET and encoded_data_next_pos_to_decode_ to 0; state_      *)
(* stays as it is and no state is notified.                                *)
C25_ResetFrameRewinds ==
    [][/\ ResetFrameDelivered
            => /\ calls'.reset = calls.reset + 1
               /\ reset_after_frame_num_' = MID_STREAM_RESET
               /\ encoded_data_next_pos_to_decode_' = 0
               /\ state_' = state_ /\ note_' = note_
               /\ state_ \in {CS_INITIALIZED, CS_FLUSHING}
       /\ (reset_after_frame_num_ > 0 /\ reset_after_frame_num_' # reset_after_frame_num_)
            => ResetFrameDelivered]_vars

(* the first picture of the stream has just made the driver reset and      *)
(* rewind while it is still CS_INITIALIZED                                 *)
C25_RewoundAtResetFrame ==
    /\ reset_after_frame_num = 1 /\ reset_after_frame_num_ = MID_STREAM_RESET
    /\ num_decoded_frames_ = 1 /\ calls.reset = 1
    /\ encoded_data_next_pos_to_decode_ = 0 /\ outstanding_decodes_ > 0
    /\ state_ = CS_INITIALIZED /\ failed = "none"

(* NotifyResetDone for the reset that START_OF_STREAM_RESET asked for *)
StartResetAcknowledged ==
    /\ reset_after_frame_num_ = START_OF_STREAM_RESET
    /\ reset_after_frame_num_' = END_OF_STREAM_RESET

(* C26 as stated: with START_OF_STREAM_RESET the driver is CS_RESETTING    *)
(* when the accelerator acknowledges, before or after the acknowledgement. *)
C26_StartResetEntersResetting ==
    [][StartResetAcknowledged
          => (state_ = CS_RESETTING \/ state_' = CS_RESETTING)]_vars

(* C26: with START_OF_STREAM_RESET the driver calls Reset() in the step    *)
(* that makes it CS_INITIALIZED and calls neither Decode() nor Flush()     *)
(* until NotifyResetDone; it stays CS_INITIALIZED through that reset,      *)
(* notifies no state for it, and NotifyResetDone starts the decoding.      *)
C26_StartResetBeforeDecode ==
    [][/\ reset_after_frame_num_ = START_OF_STREAM_RESET
            => /\ calls.decode = 0 /\ calls.flush = 0
               /\ state_ \in {CS_CREATED, CS_DECODER_SET, CS_INITIALIZED, CS_ERROR}
               /\ state_ = CS_INITIALIZED => calls.reset = 1
               /\ state_' = CS_INITIALIZED => calls'.reset = 1
       /\ StartResetAcknowledged
            => /\ state_ = CS_INITIALIZED /\ state_' = CS_INITIALIZED
               /\ note_' = note_
               /\ calls'.reset = 1 /\ calls'.flush = 0
               /\ calls'.decode = num_in_flight_decodes_]_vars

(* the start-of-stream reset was acknowledged and the driver decodes,      *)
(* still CS_INITIALIZED                                                    *)
C26_DecodingAfterStartReset ==
    /\ reset_after_frame_num = START_OF_STREAM_RESET
    /\ reset_after_frame_num_ = END_OF_STREAM_RESET
    /\ state_ = CS_INITIALIZED /\ note_ = <<CS_DECODER_SET, CS_INITIALIZED>>
    /\ calls.reset = 1 /\ calls.decode = num_in_flight_decodes_ /\ failed = "none"

RECURSIVE CursorAfter(_, _, _)
(* encoded_data_next_pos_to_decode_ after n calls of DecodeNextFragment    *)
(* that started at pos                                                     *)
CursorAfter(encoded, pos, n) ==
    IF n = 0 \/ pos = Len(encoded) THEN pos
    ELSE CursorAfter(encoded,
                     IF pos = 0 THEN GetBytesForFirstFragment(encoded, 0).end_pos
                     ELSE GetBytesForNextFragment(encoded, pos).end_pos,
                     n - 1)

(* the states notified up to CS_RESET by a run of the given play-throughs *)
UpToReset(plays) == SubSeq(HarnessPlan(plays), 1, Len(HarnessPlan(plays)) - 1)

ReplayRun ==
    /\ reset_after_frame_num = END_OF_STREAM_RESET
    /\ delete_decoder_state_ = CS_RESET /\ ~vda_error

-----------------------------------------------------------------------------
(* The fragmenters *)

RECURSIVE IvfOffset(_, _)
(* where the k-th frame header of an IVF file of the given frames starts *)
IvfOffset(units, k) ==
    IF k = 1 THEN kIvfFileHeaderSize
    ELSE IvfOffset(units, k - 1) + kIvfFrameHeaderSize + Len(units[k - 1])

(* the frame header the last call of GetBytesForNextFrame read *)
LastFrameAt == IvfOffset(frag.units, frag.calls)

FrameCalled == frag.kind = "ivf" /\ frag.calls >= 1

(* C28 as stated: the call on the frame at p whose length field is L        *)
(* returns the L bytes after the 4-byte length and 12 more header bytes    *)
(* and moves the cursor to p + 4 + 12 + L.                                 *)
C28_FrameAfterSixteenBytes ==
    FrameCalled
        => LET L == ReadUint32(encoded_data_, LastFrameAt)
           IN /\ encoded_data_next_pos_to_decode_ = LastFrameAt + 4 + 12 + L
              /\ frag.bytes = Substr(encoded_data_, LastFrameAt + 4 + 12, L)

(* C28: the call at position 0 reads the frame header at                   *)
(* kIvfFileHeaderSize; the call on the frame header at p, whose first 4    *)
(* bytes are the length L, returns the L bytes that follow the             *)
(* kIvfFrameHeaderSize bytes of the header (the length included), which    *)
(* are the frame, counts one queued fragment and moves the cursor to       *)
(* p + kIvfFrameHeaderSize + L, the next frame header or the end.          *)
C28_FrameAfterHeader ==
    FrameCalled
        => LET L == ReadUint32(encoded_data_, LastFrameAt)
           IN /\ frag.start_pos = IF frag.calls = 1 THEN 0 ELSE LastFrameAt
              /\ L = Len(frag.units[frag.calls])
              /\ frag.bytes = frag.units[frag.calls]
              /\ frag.bytes = Substr(encoded_data_, LastFrameAt + kIvfFrameHeaderSize, L)
              /\ encoded_data_next_pos_to_decode_ = LastFrameAt + kIvfFrameHeaderSize + L
              /\ encoded_data_next_pos_to_decode_
                   = IF frag.calls = Len(frag.units) THEN Len(encoded_data_)
                     ELSE IvfOffset(frag.units, frag.calls + 1)
              /\ num_queued_fragments_ = frag.calls

(* the second frame of a file was returned and the cursor is at the end *)
C28_SecondFrameReturned ==
    /\ frag.kind = "ivf" /\ frag.calls = 2
    /\ frag.units = <<(<<255>>), <<1>> >>
    /\ frag.start_pos = 45 /\ frag.bytes = <<1>>
    /\ encoded_data_next_pos_to_decode_ = 58 /\ Len(encoded_data_) = 58

RECURSIVE NalOffset(_, _)
(* where the k-th unit of a buffer made of the given units starts *)
NalOffset(units, k) ==
    IF k = 1 THEN 0 ELSE NalOffset(units, k - 1) + 4 + Len(units[k - 1])

(* a unit whose first byte after the start code has 7 in its low 5 bits *)
IsSPS(body) == Len(body) >= 1 /\ body[1] % NalTypeMask = NalSPS

(* the index of the first SPS among the units, 0 if there is none *)
FirstSPS(units) ==
    IF \E k \in DOMAIN units : IsSPS(units[k])
    THEN CHOOSE k \in DOMAIN units :
            IsSPS(units[k]) /\ \A j \in 1..(k - 1) : ~IsSPS(units[j])
    ELSE 0

NalCalled == frag.kind = "nal" /\ frag.calls >= 1

(* the unit the last call returned when the buffer has an SPS: the SPS at  *)
(* the first call, then one unit further at each call                      *)
LastUnit == FirstSPS(frag.units) + frag.calls - 1

-----------------------------------------------------------------------------
(* The state machine *)

(* the edges of the driver's state machine *)
TransitionTable ==
    {<<CS_CREATED, CS_DECODER_SET>>, <<CS_DECODER_SET, CS_INITIALIZED>>,
     <<CS_INITIALIZED, CS_FLUSHING>>, <<CS_FLUSHING, CS_FLUSHED>>,
     <<CS_FLUSHED, CS_RESETTING>>, <<CS_RESETTING, CS_INITIALIZED>>,
     <<CS_RESETTING, CS_RESET>>, <<CS_RESET, CS_DESTROYED>>}

(* the state before the i-th SetState *)
StateBefore(i) == IF i = 1 THEN CS_CREATED ELSE note_[i - 1]

(* the i-th SetState was made by NotifyError, or by DeleteDecoder's loop   *)
(* or the destructor once the decoder was deleted                          *)
Excepted(i) ==
    \/ note_[i] = CS_ERROR
    \/ calls.destroy > 0 /\ i > calls.destroy_at

(* C30: every SetState other than NotifyError's and those made once the    *)
(* decoder is deleted follows an edge of the transition table, and         *)
(* CS_RESETTING is left for CS_INITIALIZED at most                         *)
(* num_play_throughs - 1 times.                                            *)
C30_TransitionsInTable ==
    /\ \A i \in 1..Len(note_) :
          (~Excepted(i) /\ note_[i] # StateBefore(i))
              => <<StateBefore(i), note_[i]>> \in TransitionTable
    /\ Cardinality({i \in 2..Len(note_) :
                       note_[i - 1] = CS_RESETTING /\ note_[i] = CS_INITIALIZED})
         <= num_play_throughs - 1

(* the driver, CS_RESETTING with the decoder alive, called Flush() again   *)
(* and went back to CS_FLUSHING                                            *)
C30_FlushingAfterResetting ==
    /\ failed = "none" /\ calls.destroy = 0 /\ ~vda_error
    /\ Len(note_) >= 2
    /\ note_[Len(note_) - 1] = CS_RESETTING /\ note_[Len(note_)] = CS_FLUSHING
    /\ state_ = CS_FLUSHING /\ calls.flush = 2 /\ calls.reset = 2

-----------------------------------------------------------------------------
(* Assertions of the driver *)

OutstandingIds ==
    LET q == SelectSeq(vda_queue, LAMBDA e : e.kind = "decode")
    IN [i \in DOMAIN q |-> q[i].id]

(* C32: next_bitstream_buffer_id_ stays within [0, 2^30 - 1]; every        *)
(* submission takes the id that follows the id of the submission before it *)
(* modulo 2^30; the units outstanding together carry different ids.        *)
C32_IdsConsecutiveModulo ==
    /\ [](next_bitstream_buffer_id_ \in 0..(IdMod - 1))
    /\ [](\A i \in DOMAIN OutstandingIds :
             /\ OutstandingIds[i] \in 0..(IdMod - 1)
             /\ i > 1 => OutstandingIds[i] = (OutstandingIds[i - 1] + 1) % IdMod
             /\ i = Len(OutstandingIds)
                   => next_bitstream_buffer_id_ = (OutstandingIds[i] + 1) % IdMod
             /\ \A j \in DOMAIN OutstandingIds : i # j => OutstandingIds[i] # OutstandingIds[j])
    /\ [][next_bitstream_buffer_id_'
             = (next_bitstream_buffer_id_ + calls.decode' - calls.decode) % IdMod]_vars

(* two units are outstanding, the first with the last id before the wrap *)
C32_OutstandingAcrossWrap ==
    /\ failed = "none"
    /\ OutstandingIds = <<IdMod - 1, 0>>
    /\ next_bitstream_buffer_id_ = 1

(* C33: the DCHECK_EQ(outstanding_decodes_, num_in_flight_decodes_) that  *)
(* ends NotifyInitializeDone holds at every entry to CS_INITIALIZED, and   *)
(* the step that enters it and starts decoding leaves                      *)
(* num_in_flight_decodes_ decodes outstanding, also for a stream of fewer  *)
(* fragments.                                                              *)
C33_BurstFillsInFlight ==
    /\ []("NotifyInitializeDone" \notin dchecks)
    /\ [][(Len(note_') > Len(note_) /\ note_'[Len(note_) + 1] = CS_INITIALIZED
           /\ reset_after_frame_num_ # START_OF_STREAM_RESET /\ failed' = "none")
             => outstanding_decodes_' = num_in_flight_decodes_]_vars

(* the whole stream is submitted and fewer decodes are outstanding than    *)
(* may be in flight                                                        *)
C33_StreamShorterThanBurst ==
    /\ "NotifyInitializeDone" \in dchecks /\ failed = "none"
    /\ state_ = CS_INITIALIZED
    /\ encoded_data_next_pos_to_decode_ = Len(encoded_data_)
    /\ outstanding_decodes_ = num_fragments
    /\ outstanding_decodes_ < num_in_flight_decodes_

(* C34: with an accelerator that answers every call and fair scheduling   *)
(* of the callbacks and of the delayed tasks, the driver reaches           *)
(* CS_DESTROYED, with the throttling client as without it.  An            *)
(* accelerator that reported an error answers no more.                     *)
C34_EventuallyDestroyed == <>(state_ = CS_DESTROYED \/ vda_error)

(* where Followed ends: once below zero remaining_play_throughs_ stays     *)
(* below zero, and the driver is short of CS_RESET with its decoder alive  *)
(* and no CHECK failed; it holds of the throttled driver that is followed  *)
(* further, SpecThrottling                                                 *)
PlayThroughsStayBelowZero ==
    /\ [](remaining_play_throughs_ < 0
            => (state_ < CS_RESET /\ decoder_ /\ failed = "none"))
    /\ [][remaining_play_throughs_ < 0 => remaining_play_throughs_' < 0]_vars

(* two flush-complete callbacks reached the driver in its only             *)
(* play-through: remaining_play_throughs_ is below zero with the decoder   *)
(* alive and two resets requested                                          *)
C34_PlayThroughsBelowZero ==
    /\ throttling_client_ /\ failed = "none" /\ decoder_
    /\ num_play_throughs = 1 /\ remaining_play_throughs_ = -1
    /\ state_ = CS_RESETTING /\ calls.reset >= 2

(* C35: Decode is called in CS_INITIALIZED only: a step that submits a     *)
(* fragment is made in CS_INITIALIZED, or enters it by NotifyInitializeDone *)
(* before it submits, whatever the order of the callbacks and also when    *)
(* the picture that triggers the mid-stream reset comes after Flush().     *)
C35_DecodeOnlyWhenInitialized ==
    [][calls'.decode > calls.decode =>
          \/ state_ = CS_INITIALIZED
          \/ /\ Len(note_') > Len(note_)
             /\ note_'[Len(note_) + 1] = CS_INITIALIZED]_vars

(* a fragment was submitted on the reset-complete of a mid-stream reset    *)
(* that was issued after Flush(): the unit is with the accelerator and     *)
(* state_ is past CS_INITIALIZED                                           *)
C35_DecodeWhileFlushing ==
    /\ failed = "none" /\ decoder_
    /\ state_ \in {CS_FLUSHING, CS_FLUSHED, CS_RESETTING}
    /\ calls.flush >= 1
    /\ \E i \in DOMAIN vda_queue :
          /\ vda_queue[i].kind = "decode" /\ ~vda_queue[i].stale
          /\ \E j \in 1..(i - 1) : vda_queue[j].kind \in {"flush", "reset"}

(* C36: behind the throttling client, once reset_after_frame_num pictures *)
(* were handed to the driver in its last play-through the mid-stream       *)
(* Reset() was issued, once, however many pictures had reached the         *)
(* throttling client by then.                                              *)
C36_ResetAtFrameDelivered ==
    (/\ throttling_client_ /\ failed = "none" /\ decoder_
     /\ reset_after_frame_num > 0 /\ num_play_throughs = 1
     /\ num_decoded_frames_ >= reset_after_frame_num)
        => /\ reset_after_frame_num_ # reset_after_frame_num
           /\ calls.reset >= 1

(* the first picture is handed to the driver when the second has arrived   *)
(* at the throttling client and waits there: no Reset() is issued          *)
C36_SecondPictureQueuedAtFirst ==
    /\ throttling_client_ /\ failed = "none" /\ decoder_
    /\ reset_after_frame_num = 1 /\ reset_after_frame_num_ = 1
    /\ num_decoded_frames_ = 1 /\ throttling_num_decoded_frames_ = 2
    /\ Len(pending_pictures_) = 1
    /\ calls.reset = 0

-----------------------------------------------------------------------------
(* The delivery tasks of the throttling client *)

(* the CallClientPictureReady tasks posted in the current stream version *)
CurrentTicks ==
    {i \in DOMAIN tasks : /\ tasks[i].kind = "CallClientPictureReady"
                          /\ tasks[i].version = stream_version_}

(* C37: while pending_pictures_ holds a picture exactly one               *)
(* CallClientPictureReady task of the current stream version is posted,    *)
(* and none while it is empty; no such task finds pending_pictures_ empty. *)
C37_OneTickWhilePending ==
    /\ failed # "CallClientPictureReady: front() of empty pending_pictures_"
    /\ failed = "none"
          => Cardinality(CurrentTicks) = (IF pending_pictures_ = <<>> THEN 0 ELSE 1)

(* after a reset-complete: a task of the stream version before it is still *)
(* posted, and a picture that came since waits with one task of its own    *)
C37_StaleAndCurrentTick ==
    /\ throttling_client_ /\ failed = "none"
    /\ stream_version_ = 1 /\ Len(pending_pictures_) = 1
    /\ Cardinality(CurrentTicks) = 1
    /\ \E i \in DOMAIN tasks : /\ tasks[i].kind = "CallClientPictureReady"
                               /\ tasks[i].version = 0

-----------------------------------------------------------------------------
(* delete_decoder_state over ClientState *)

(* C38: whatever ClientState delete_decoder_state_ is, CS_ERROR and        *)
(* CS_DESTROYED among them, the CHECK(!decoder_deleted()) of SetState      *)
(* never fails: neither the loop of DeleteDecoder nor the destructor's     *)
(* SetState(CS_DESTROYED) comes to delete a decoder that is deleted.       *)
C38_DeleteStateFindsDecoder == failed # "SetState: CHECK(!decoder_deleted())"

(* the loop of DeleteDecoder, run from NotifyResetDone at the end of the   *)
(* last play-through, notified the configured state with the decoder gone  *)
C38_CascadeReachedDeleteState ==
    /\ failed = "SetState: CHECK(!decoder_deleted())"
    /\ delete_decoder_state_ \in {CS_ERROR, CS_DESTROYED}
    /\ state_ = delete_decoder_state_
    /\ ~decoder_ /\ calls.destroy = 1 /\ ~vda_error
    /\ remaining_play_throughs_ = 0

-----------------------------------------------------------------------------
(* Progress through the stream *)

(* C39: every call of DecodeNextFragment that takes a fragment from a      *)
(* buffer of start-code units moves encoded_data_next_pos_to_decode_       *)
(* forward and takes at least one byte, also on a buffer without SPS and   *)
(* on one of less than 5 bytes.                                            *)
C39_FragmentAdvancesCursor ==
    [][(frag.kind = "nal" /\ frag'.calls = frag.calls + 1 /\ failed' = "none")
          => /\ encoded_data_next_pos_to_decode_' > encoded_data_next_pos_to_decode_
             /\ frag'.bytes # <<>>]_vars

(* two calls on a buffer of one unit that is no SPS: both at position 0,   *)
(* both without a byte, the unit counted as skipped twice                  *)
C39_EmptyFragmentTwice ==
    /\ frag.kind = "nal" /\ failed = "none"
    /\ encoded_data_ = <<0, 0, 0, 1, 1>>
    /\ frag.calls = 2 /\ frag.start_pos = 0 /\ frag.bytes = <<>>
    /\ encoded_data_next_pos_to_decode_ = 0
    /\ num_queued_fragments_ = 0 /\ num_skipped_fragments_ = 2

=============================================================================
